---- MODULE Spec2Model ----
(***************************************************************************)
(* A model of the particle motion core of Particle-Dance-Template:         *)
(*   - PhysicsEngine        (src/src/lib/engine/PhysicsEngine.ts 55-539)   *)
(*   - DancePatternEngine   (src/src/lib/engine/PhysicsEngine.ts 585-879)  *)
(*   - the pattern dispatch of the frame drivers (useParticleSystem,       *)
(*     ParticleCanvas).                                                    *)
(*                                                                         *)
(* Numbers.  A JavaScript number is modelled as a fixed-point integer with *)
(* Scale steps per unit (1.0 is Scale), rounded toward zero after every    *)
(* product and quotient, plus one value NaN that stands for every          *)
(* non-finite double (NaN, +Infinity, -Infinity).  A time step is kept in  *)
(* milliseconds, so deltaTime / 1000 is exact.                             *)
(*                                                                         *)
(* Objects.  Particle objects live in `heap` and are named by their index; *)
(* arrays hold object names, so that aliasing (the same object reachable   *)
(* from the engine's array, from a spatial-grid bucket and from a caller's *)
(* reference) is modelled as the code has it.                              *)
(***************************************************************************)
EXTENDS Integers, Sequences, FiniteSets, TLC

(***************************************************************************)
(* Bounds of the model.                                                    *)
(***************************************************************************)
MaxParticles == 2      \* particle objects ever handed to addParticle
MaxForces == 1         \* forces registered at one time
MaxUpdates == 2        \* update calls in one behaviour
MaxCurrentTime == 500  \* DancePatternEngine.currentTime, in milliseconds
MaxCollection == 4     \* particle objects when only the collection is exercised
MaxForceList == 2      \* forces registered at one time when the list is exercised
MaxIndex == 61         \* particle indices handed to execute

(***************************************************************************)
(* Fixed-point arithmetic.                                                 *)
(***************************************************************************)
\* Two decimals: 0.98 is 98, 9.81 is 981.
Scale == 10 * 10

NaN == Scale * Scale * Scale * 1000

Abs(a) == IF a < 0 THEN -a ELSE a

\* Integer quotient rounded toward zero (sign-symmetric, as IEEE rounding is).
Quot(a, b) ==
  IF b > 0
    THEN (IF a >= 0 THEN a \div b ELSE -((-a) \div b))
    ELSE (IF a >= 0 THEN -(a \div (-b)) ELSE (-a) \div (-b))

\* JavaScript's % : the remainder takes the sign of the dividend.
JsMod(a, b) == a - b * Quot(a, b)

\* Math.floor of a quotient.
FloorDiv(a, b) == a \div b

fadd(a, b) == IF a = NaN \/ b = NaN THEN NaN ELSE a + b
fsub(a, b) == IF a = NaN \/ b = NaN THEN NaN ELSE a - b
fneg(a) == IF a = NaN THEN NaN ELSE -a
fmul(a, b) == IF a = NaN \/ b = NaN THEN NaN ELSE Quot(a * b, Scale)
\* x / 0 is +-Infinity or NaN in JavaScript: non-finite either way.
fdiv(a, b) == IF a = NaN \/ b = NaN \/ b = 0 THEN NaN ELSE Quot(a * Scale, b)
\* Every comparison with NaN is false.
flt(a, b) == a # NaN /\ b # NaN /\ a < b
fgt(a, b) == a # NaN /\ b # NaN /\ a > b
fmax(a, b) == IF a = NaN \/ b = NaN THEN NaN ELSE IF a > b THEN a ELSE b
fmin(a, b) == IF a = NaN \/ b = NaN THEN NaN ELSE IF a < b THEN a ELSE b

RECURSIVE SqrtSearch(_, _, _)
SqrtSearch(n, lo, hi) ==
  IF lo >= hi THEN lo
  ELSE LET mid == (lo + hi + 1) \div 2
       IN IF mid * mid <= n THEN SqrtSearch(n, mid, hi)
                            ELSE SqrtSearch(n, lo, mid - 1)

\* Math.sqrt of n, where n is a sum of squares of fixed-point numbers: the
\* result is again fixed-point.
fsqrt(n) == IF n = NaN THEN NaN ELSE SqrtSearch(n, 0, 46340)

\* x * dt for a step of dtMs milliseconds (dt = dtMs / 1000 seconds).
mulDt(a, dtMs) == IF a = NaN THEN NaN ELSE Quot(a * dtMs, 1000)

(***************************************************************************)
(* Vector math utilities (PhysicsEngine.ts 458-505).  The in-place methods *)
(* (addToVector, ...) return the target's new value.                       *)
(***************************************************************************)
Vec(a, b, c) == [x |-> a, y |-> b, z |-> c]
ZeroVector == Vec(0, 0, 0)

addVectors(a, b) == Vec(fadd(a.x, b.x), fadd(a.y, b.y), fadd(a.z, b.z))
subtractVectors(a, b) == Vec(fsub(a.x, b.x), fsub(a.y, b.y), fsub(a.z, b.z))
multiplyVector(v, scalar) == Vec(fmul(v.x, scalar), fmul(v.y, scalar), fmul(v.z, scalar))
addToVector(target, source) == addVectors(target, source)
subtractFromVector(target, source) == subtractVectors(target, source)
multiplyVectorInPlace(v, scalar) == multiplyVector(v, scalar)

vectorMagnitude(v) ==
  IF v.x = NaN \/ v.y = NaN \/ v.z = NaN THEN NaN
  ELSE fsqrt(v.x * v.x + v.y * v.y + v.z * v.z)

vectorDistance(a, b) == vectorMagnitude(subtractVectors(a, b))

\* multiplyVector(v, 1 / magnitude) without the zero guard: 1 / 0 is Infinity
\* and 0 * Infinity is NaN.  The reciprocal and the product are rounded once.
scaleByInverse(v, magnitude) ==
  Vec(fdiv(v.x, magnitude), fdiv(v.y, magnitude), fdiv(v.z, magnitude))

normalizeVectorUnguarded(v) == scaleByInverse(v, vectorMagnitude(v))

normalizeVector(v) ==
  LET magnitude == vectorMagnitude(v)
  IN IF magnitude = 0 THEN ZeroVector ELSE scaleByInverse(v, magnitude)

dotProduct(a, b) == fadd(fadd(fmul(a.x, b.x), fmul(a.y, b.y)), fmul(a.z, b.z))

VecFinite(v) == v.x # NaN /\ v.y # NaN /\ v.z # NaN

(***************************************************************************)
(* Math.sin, Math.cos and Math.exp, approximated in fixed point.           *)
(***************************************************************************)
Pi == (355 * Scale) \div 113

\* Bhaskara's approximation of sin on [0, pi].
SinHalfTurn(r) ==
  LET p == r * (Pi - r)
  IN Quot(16 * p * Scale, 5 * Pi * Pi - 4 * p)

Sin(a) ==
  IF a = NaN THEN NaN
  ELSE LET m == JsMod(a, 2 * Pi)
           r == IF m < 0 THEN m + 2 * Pi ELSE m
       IN IF r <= Pi THEN SinHalfTurn(r) ELSE -SinHalfTurn(r - Pi)

Cos(a) == IF a = NaN THEN NaN ELSE Sin(a + Pi \div 2)

\* Math.exp(-a) for a >= 0, by the reciprocal of the cubic Taylor polynomial.
ExpNeg(a) ==
  IF a = NaN THEN NaN
  ELSE LET a2 == fmul(a, a)
           a3 == fmul(a2, a)
       IN fdiv(Scale, Scale + a + a2 \div 2 + a3 \div 6)

(***************************************************************************)
(* Forces (PhysicsEngine.ts 161-295, 507-525).  A particle is a record     *)
(* [id, position, velocity, acceleration, mass, size, damping, isFixed];   *)
(* a force is [type, hasPosition, position, strength, radius,              *)
(* hasDirection, direction, falloff]: the two has* fields say whether the  *)
(* optional field is present.                                              *)
(***************************************************************************)
calculateFalloff(distance, radius, type) ==
  LET normalizedDistance == fdiv(distance, radius)
  IN CASE type = "linear" -> fmax(0, fsub(Scale, normalizedDistance))
       [] type = "quadratic" ->
            fmax(0, fsub(Scale, fmul(normalizedDistance, normalizedDistance)))
       [] type = "exponential" -> ExpNeg(fmul(normalizedDistance, 3 * Scale))
       [] OTHER -> Scale

calculateAttractiveForce(force, particle) ==
  IF ~force.hasPosition THEN ZeroVector
  ELSE LET direction == subtractVectors(force.position, particle.position)
           distance == vectorMagnitude(direction)
       IN IF fgt(distance, force.radius) THEN ZeroVector
          ELSE LET normalizedDirection == normalizeVector(direction)
                   falloffFactor ==
                     calculateFalloff(distance, force.radius, force.falloff)
                   forceStrength ==
                     fdiv(fmul(force.strength, falloffFactor), particle.mass)
                   multiplier == IF force.type = "repulsion" THEN -Scale ELSE Scale
               IN multiplyVector(normalizedDirection,
                                 fmul(forceStrength, multiplier))

calculateWindForce(force, particle) ==
  LET windDirection == IF force.hasDirection THEN force.direction
                                             ELSE Vec(Scale, 0, 0)
      relativeVelocity == subtractVectors(windDirection, particle.velocity)
      windStrength == fdiv(force.strength, particle.mass)
  IN multiplyVector(relativeVelocity, fmul(windStrength, Scale \div 10))

calculateVortexForce(force, particle) ==
  IF ~force.hasPosition THEN ZeroVector
  ELSE LET toCenter == subtractVectors(force.position, particle.position)
           distance == vectorMagnitude(toCenter)
       IN IF fgt(distance, force.radius) THEN ZeroVector
          ELSE LET tangent == Vec(fneg(toCenter.z), 0, toCenter.x)
                   normalizedTangent == normalizeVector(tangent)
                   falloffFactor ==
                     calculateFalloff(distance, force.radius, force.falloff)
                   vortexStrength ==
                     fdiv(fmul(force.strength, falloffFactor), particle.mass)
                   inward == normalizeVector(toCenter)
               IN addVectors(
                    multiplyVector(normalizedTangent, vortexStrength),
                    multiplyVector(inward, fmul(vortexStrength, Scale \div 10)))

\* `now` is Date.now() * 0.001, the wall clock in seconds.
calculateTurbulenceForce(force, particle, now) ==
  LET noiseX == fmul(Sin(fadd(now, fmul(particle.position.x, 1))), Scale \div 2)
      noiseY == fmul(Cos(fadd(now, fmul(particle.position.y, 1))), Scale \div 2)
      noiseZ == fmul(Sin(fadd(now, fmul(particle.position.z, 1))), Scale \div 2)
      turbulenceStrength == fdiv(force.strength, particle.mass)
  IN Vec(fmul(noiseX, turbulenceStrength),
         fmul(noiseY, turbulenceStrength),
         fmul(noiseZ, turbulenceStrength))

\* The wind force sampling the wall clock as the turbulence force does.
calculateForceClockedWind(force, particle, now) ==
  CASE force.type = "gravity" ->
         multiplyVector(IF force.hasDirection THEN force.direction
                                              ELSE Vec(0, -Scale, 0),
                        force.strength)
    [] force.type \in {"attraction", "repulsion"} ->
         calculateAttractiveForce(force, particle)
    [] force.type = "vortex" -> calculateVortexForce(force, particle)
    [] force.type \in {"wind", "turbulence"} ->
         calculateTurbulenceForce(force, particle, now)
    [] OTHER -> ZeroVector

calculateForce(force, particle, now) ==
  CASE force.type = "gravity" ->
         multiplyVector(IF force.hasDirection THEN force.direction
                                              ELSE Vec(0, -Scale, 0),
                        force.strength)
    [] force.type \in {"attraction", "repulsion"} ->
         calculateAttractiveForce(force, particle)
    [] force.type = "wind" -> calculateWindForce(force, particle)
    [] force.type = "vortex" -> calculateVortexForce(force, particle)
    [] force.type = "turbulence" -> calculateTurbulenceForce(force, particle, now)
    [] OTHER -> ZeroVector

WithAcceleration(particle, a) == [particle EXCEPT !.acceleration = a]

applyGravity(particle, config) ==
  LET gravityForce == multiplyVector(config.gravity, particle.mass)
  IN WithAcceleration(particle, addToVector(particle.acceleration, gravityForce))

RECURSIVE applyForcesFrom(_, _, _, _)
applyForcesFrom(particle, forceList, k, now) ==
  IF k > Len(forceList) THEN particle
  ELSE LET forceVector == calculateForce(forceList[k], particle, now)
       IN applyForcesFrom(
            WithAcceleration(particle,
                             addToVector(particle.acceleration, forceVector)),
            forceList, k + 1, now)

\* Only the first registered force is applied.
applyForcesFirstOnly(particle, forceList, now) ==
  IF Len(forceList) = 0 THEN particle
  ELSE WithAcceleration(particle,
         addToVector(particle.acceleration,
                     calculateForce(forceList[1], particle, now)))

applyForces(particle, forceList, now) == applyForcesFrom(particle, forceList, 1, now)

applyAirResistance(particle, config) ==
  LET resistance == multiplyVector(particle.velocity, fneg(config.airResistance))
  IN WithAcceleration(particle, addToVector(particle.acceleration, resistance))

(***************************************************************************)
(* Spatial grid (PhysicsEngine.ts 420-456).  The Map from a cell key to    *)
(* the bucket of particle objects is a sequence of [key, particle]         *)
(* entries in insertion order; a bucket is the entries of one key.         *)
(***************************************************************************)
gridSize == 50

floorCell(a) == IF a = NaN THEN NaN ELSE FloorDiv(a, gridSize * Scale)

getGridKey(position) ==
  Vec(floorCell(position.x), floorCell(position.y), floorCell(position.z))

RECURSIVE updateSpatialGridFrom(_, _, _)
updateSpatialGridFrom(h, ps, k) ==
  IF k > Len(ps) THEN <<>>
  ELSE <<[key |-> getGridKey(h[ps[k]].position), particle |-> ps[k]]>>
         \o updateSpatialGridFrom(h, ps, k + 1)

\* The grid built from every particle object, removed ones included.
updateSpatialGridWholeHeap(h, ps) ==
  updateSpatialGridFrom(h, [i \in 1..Len(h) |-> i], 1)

updateSpatialGrid(h, ps) == updateSpatialGridFrom(h, ps, 1)

Bucket(grid, key) ==
  LET sel == SelectSeq(grid, LAMBDA e : e.key = key)
  IN [i \in 1..Len(sel) |-> sel[i].particle]

\* The n-th cell offset of the dx, dy, dz loops, n = 0..26.
CellOffset(n) == Vec((n \div 9) - 1, ((n \div 3) % 3) - 1, (n % 3) - 1)

RECURSIVE getNearbyParticlesFrom(_, _, _)
getNearbyParticlesFrom(grid, gridKey, n) ==
  IF n > 26 THEN <<>>
  ELSE Bucket(grid, addVectors(gridKey, CellOffset(n)))
         \o getNearbyParticlesFrom(grid, gridKey, n + 1)

getNearbyParticles(grid, gridKey) == getNearbyParticlesFrom(grid, gridKey, 0)

(***************************************************************************)
(* Collisions (PhysicsEngine.ts 308-367).  h is the heap, p1 and p2 name   *)
(* objects of it; the result is the heap after the method's writes.        *)
(***************************************************************************)
\* The isFixed test, answering that every particle may be moved.
canMoveAlways(particle) == TRUE

\* The test `!p.isFixed` that guards every write of resolveCollision.
canMove(particle) == ~particle.isFixed

\* The impulse without the rebound term: -restitution * v instead of
\* -(1 + restitution) * v.
collisionImpulseNoRebound(restitution, velocityAlongNormal, mass1, mass2) ==
  fdiv(fmul(fneg(restitution), velocityAlongNormal),
       fadd(fdiv(Scale, mass1), fdiv(Scale, mass2)))

\* (-(1 + restitution) * velocityAlongNormal) / (1 / p1.mass + 1 / p2.mass)
collisionImpulse(restitution, velocityAlongNormal, mass1, mass2) ==
  fdiv(fmul(fneg(fadd(Scale, restitution)), velocityAlongNormal),
       fadd(fdiv(Scale, mass1), fdiv(Scale, mass2)))

\* The velocity response without the return on separating particles.
collisionResponseAlways(h, p1, p2, direction, config) ==
  LET relativeVelocity == subtractVectors(h[p1].velocity, h[p2].velocity)
      velocityAlongNormal == dotProduct(relativeVelocity, direction)
      restitution == config.collisions.damping
      impulse == collisionImpulse(restitution, velocityAlongNormal,
                                  h[p1].mass, h[p2].mass)
      impulseVector == multiplyVector(direction, impulse)
      v1 == IF canMove(h[p1])
              THEN addToVector(h[p1].velocity,
                     multiplyVector(impulseVector, fdiv(Scale, h[p1].mass)))
              ELSE h[p1].velocity
      v2 == IF canMove(h[p2])
              THEN subtractFromVector(h[p2].velocity,
                     multiplyVector(impulseVector, fdiv(Scale, h[p2].mass)))
              ELSE h[p2].velocity
  IN [h EXCEPT ![p1].velocity = v1, ![p2].velocity = v2]

\* The velocity response of resolveCollision, after the positional separation.
collisionResponse(h, p1, p2, direction, config) ==
  LET relativeVelocity == subtractVectors(h[p1].velocity, h[p2].velocity)
      velocityAlongNormal == dotProduct(relativeVelocity, direction)
  IN IF fgt(velocityAlongNormal, 0) THEN h
     ELSE LET restitution == config.collisions.damping
              impulse == collisionImpulse(restitution, velocityAlongNormal,
                                          h[p1].mass, h[p2].mass)
              impulseVector == multiplyVector(direction, impulse)
              v1 == IF canMove(h[p1])
                      THEN addToVector(h[p1].velocity,
                             multiplyVector(impulseVector, fdiv(Scale, h[p1].mass)))
                      ELSE h[p1].velocity
              v2 == IF canMove(h[p2])
                      THEN subtractFromVector(h[p2].velocity,
                             multiplyVector(impulseVector, fdiv(Scale, h[p2].mass)))
                      ELSE h[p2].velocity
          IN [h EXCEPT ![p1].velocity = v1, ![p2].velocity = v2]

\* The separation by the whole overlap for each particle instead of half.
resolveCollisionWholeOverlap(h, p1, p2, distance, minDistance, config) ==
  LET overlap == fsub(minDistance, distance)
      direction == normalizeVector(subtractVectors(h[p1].position, h[p2].position))
      separation == multiplyVector(direction, overlap)
      pos1 == IF canMove(h[p1]) THEN addToVector(h[p1].position, separation)
                                ELSE h[p1].position
      pos2 == IF canMove(h[p2]) THEN subtractFromVector(h[p2].position, separation)
                                ELSE h[p2].position
      h1 == [h EXCEPT ![p1].position = pos1, ![p2].position = pos2]
  IN collisionResponse(h1, p1, p2, direction, config)

resolveCollision(h, p1, p2, distance, minDistance, config) ==
  LET overlap == fsub(minDistance, distance)
      direction == normalizeVector(subtractVectors(h[p1].position, h[p2].position))
      separation == multiplyVector(direction, fmul(overlap, Scale \div 2))
      pos1 == IF canMove(h[p1]) THEN addToVector(h[p1].position, separation)
                                ELSE h[p1].position
      pos2 == IF canMove(h[p2]) THEN subtractFromVector(h[p2].position, separation)
                                ELSE h[p2].position
      h1 == [h EXCEPT ![p1].position = pos1, ![p2].position = pos2]
  IN collisionResponse(h1, p1, p2, direction, config)

RECURSIVE handleCollisionsFrom(_, _, _, _, _)
handleCollisionsFrom(h, particle, nearbyParticles, k, config) ==
  IF k > Len(nearbyParticles) THEN h
  ELSE LET other == nearbyParticles[k]
           distance == vectorDistance(h[particle].position, h[other].position)
           minDistance == config.collisions.minDistance
           h1 == IF h[other].id = h[particle].id THEN h
                 ELSE IF flt(distance, minDistance) /\ fgt(distance, 0)
                   THEN resolveCollision(h, particle, other, distance,
                                         minDistance, config)
                   ELSE h
       IN handleCollisionsFrom(h1, particle, nearbyParticles, k + 1, config)

handleCollisions(h, particle, grid, config) ==
  LET gridKey == getGridKey(h[particle].position)
      nearbyParticles == getNearbyParticles(grid, gridKey)
  IN handleCollisionsFrom(h, particle, nearbyParticles, 1, config)

(***************************************************************************)
(* Integration and boundaries (PhysicsEngine.ts 369-418).                  *)
(***************************************************************************)
\* Damping applied after the position update instead of before it.
integrateMotionDampingLast(particle, dtMs) ==
  LET accelerationDelta ==
        Vec(mulDt(particle.acceleration.x, dtMs),
            mulDt(particle.acceleration.y, dtMs),
            mulDt(particle.acceleration.z, dtMs))
      velocity1 == addToVector(particle.velocity, accelerationDelta)
      velocityDelta ==
        Vec(mulDt(velocity1.x, dtMs), mulDt(velocity1.y, dtMs),
            mulDt(velocity1.z, dtMs))
  IN [particle EXCEPT !.velocity = multiplyVectorInPlace(velocity1, particle.damping),
                      !.position = addToVector(particle.position, velocityDelta)]

integrateMotion(particle, dtMs) ==
  LET accelerationDelta ==
        Vec(mulDt(particle.acceleration.x, dtMs),
            mulDt(particle.acceleration.y, dtMs),
            mulDt(particle.acceleration.z, dtMs))
      velocity1 == addToVector(particle.velocity, accelerationDelta)
      velocity2 == multiplyVectorInPlace(velocity1, particle.damping)
      velocityDelta ==
        Vec(mulDt(velocity2.x, dtMs), mulDt(velocity2.y, dtMs),
            mulDt(velocity2.z, dtMs))
  IN [particle EXCEPT !.velocity = velocity2,
                      !.position = addToVector(particle.position, velocityDelta)]

\* One axis of handleBoundaries without its else-branch (the upper bound).
boundaryAxisLowerOnly(pos, vel, lo, hi, bounce) ==
  IF flt(pos, lo) THEN <<lo, fmul(vel, fneg(bounce))>> ELSE <<pos, vel>>

\* One axis of handleBoundaries: <<position, velocity>> of that axis.
boundaryAxis(pos, vel, lo, hi, bounce) ==
  IF flt(pos, lo) THEN <<lo, fmul(vel, fneg(bounce))>>
  ELSE IF fgt(pos, hi) THEN <<hi, fmul(vel, fneg(bounce))>>
  ELSE <<pos, vel>>

\* Every velocity component reflected as soon as one axis is beyond a bound.
handleBoundariesAllAxes(particle, config) ==
  LET bounds == config.boundaries
      bounce == bounds.bounce
      ax == boundaryAxis(particle.position.x, particle.velocity.x,
                         bounds.min.x, bounds.max.x, bounce)
      ay == boundaryAxis(particle.position.y, particle.velocity.y,
                         bounds.min.y, bounds.max.y, bounce)
      az == boundaryAxis(particle.position.z, particle.velocity.z,
                         bounds.min.z, bounds.max.z, bounce)
      position == Vec(ax[1], ay[1], az[1])
  IN [particle EXCEPT
        !.position = position,
        !.velocity = IF position = particle.position
                     THEN particle.velocity
                     ELSE multiplyVector(particle.velocity, fneg(bounce))]

handleBoundaries(particle, config) ==
  LET bounds == config.boundaries
      bounce == bounds.bounce
      ax == boundaryAxis(particle.position.x, particle.velocity.x,
                         bounds.min.x, bounds.max.x, bounce)
      ay == boundaryAxis(particle.position.y, particle.velocity.y,
                         bounds.min.y, bounds.max.y, bounce)
      az == boundaryAxis(particle.position.z, particle.velocity.z,
                         bounds.min.z, bounds.max.z, bounce)
  IN [particle EXCEPT !.position = Vec(ax[1], ay[1], az[1]),
                      !.velocity = Vec(ax[2], ay[2], az[2])]

(***************************************************************************)
(* update (PhysicsEngine.ts 112-145).                                      *)
(***************************************************************************)
dtCapMs == 16

\* The step without the cap.
effectiveDtUncapped(deltaTime) == deltaTime

\* Math.min(deltaTime / 1000, 0.016), in milliseconds.
effectiveDt(deltaTime) == IF deltaTime < dtCapMs THEN deltaTime ELSE dtCapMs

\* The body of update's loop for one non-fixed particle object.
stepParticle(h, particle, forceList, config, grid, dtMs, now) ==
  LET reset == WithAcceleration(h[particle], ZeroVector)
      a1 == applyGravity(reset, config)
      a2 == applyForces(a1, forceList, now)
      a3 == applyAirResistance(a2, config)
      h1 == [h EXCEPT ![particle] = a3]
      h2 == IF config.collisions.enabled
              THEN handleCollisions(h1, particle, grid, config)
              ELSE h1
      moved == integrateMotion(h2[particle], dtMs)
  IN [h2 EXCEPT ![particle] = handleBoundaries(moved, config)]

\* The loop of update running from the last particle to the first.
RECURSIVE updateFromReversed(_, _, _, _, _, _, _, _)
updateFromReversed(h, ps, k, forceList, config, grid, dtMs, now) ==
  IF k > Len(ps) THEN h
  ELSE LET particle == ps[Len(ps) + 1 - k]
           h1 == IF h[particle].isFixed THEN h
                 ELSE stepParticle(h, particle, forceList, config, grid, dtMs, now)
       IN updateFromReversed(h1, ps, k + 1, forceList, config, grid, dtMs, now)

RECURSIVE updateFrom(_, _, _, _, _, _, _, _)
updateFrom(h, ps, k, forceList, config, grid, dtMs, now) ==
  IF k > Len(ps) THEN h
  ELSE LET h1 == IF h[ps[k]].isFixed THEN h
                 ELSE stepParticle(h, ps[k], forceList, config, grid, dtMs, now)
       IN updateFrom(h1, ps, k + 1, forceList, config, grid, dtMs, now)

\* An update that steps every particle object it has ever seen, removed
\* ones included.
updateWholeHeap(h, ps, forceList, config, deltaTime, now) ==
  updateFrom(h, [i \in 1..Len(h) |-> i], 1, forceList, config,
             updateSpatialGrid(h, ps), effectiveDt(deltaTime), now)

\* The heap after update(deltaTime) on the collection ps.
update(h, ps, forceList, config, deltaTime, now) ==
  updateFrom(h, ps, 1, forceList, config, updateSpatialGrid(h, ps),
             effectiveDt(deltaTime), now)

(***************************************************************************)
(* Inputs of the model: the configurations, particles and forces a caller  *)
(* hands to the engine.  All are valid in the sense of the engine's        *)
(* contract: mass > 0, radius > 0, boundaries.min <= boundaries.max.       *)
(***************************************************************************)
U(n) == n * Scale      \* n units as a fixed-point number

\* The constructor's defaults (PhysicsEngine.ts 63-76), with a smaller box.
DefaultConfig ==
  [gravity |-> Vec(0, -981, 0),
   airResistance |-> 2,
   groundLevel |-> U(-200),
   boundaries |-> [min |-> Vec(U(-100), U(-100), U(-100)),
                   max |-> Vec(U(100), U(100), U(100)),
                   bounce |-> 70],
   collisions |-> [enabled |-> TRUE, damping |-> 80, minDistance |-> U(5)]]

\* The configuration the frame driver constructs (useParticleSystem 39-52).
DriverConfig ==
  [DefaultConfig EXCEPT
     !.gravity = ZeroVector,
     !.airResistance = 5,
     !.boundaries = [min |-> Vec(U(-100), U(-100), U(-100)),
                     max |-> Vec(U(100), U(100), U(100)),
                     bounce |-> 80],
     !.collisions = [enabled |-> FALSE, damping |-> 80, minDistance |-> U(10)]]

\* Perfectly elastic collisions and nothing else acting.
ElasticConfig ==
  [DefaultConfig EXCEPT
     !.gravity = ZeroVector,
     !.airResistance = 0,
     !.collisions = [enabled |-> TRUE, damping |-> Scale, minDistance |-> U(5)]]

ConfigPool == {DefaultConfig, DriverConfig, ElasticConfig}

Particle(id, position, velocity, mass, damping, isFixed) ==
  [id |-> id, position |-> position, velocity |-> velocity,
   acceleration |-> ZeroVector, mass |-> mass, size |-> U(2),
   damping |-> damping, isFixed |-> isFixed]

ParticlePool ==
  { Particle(0, Vec(U(-2), 0, 0), Vec(U(10), 0, 0), Scale, Scale, FALSE),
    Particle(1, Vec(U(2), 0, 0), Vec(U(-10), 0, 0), Scale, Scale, FALSE),
    Particle(2, ZeroVector, ZeroVector, 2 * Scale, Scale, TRUE),
    Particle(1, Vec(U(99), U(-150), 0), Vec(U(200), 0, U(-30)), 2 * Scale, 98, FALSE),
    Particle(3, ZeroVector, Vec(0, U(5), 0), Scale, 98, FALSE) }

Ids == 0..3

Force(type, hasPosition, position, strength, radius, hasDirection, direction, falloff) ==
  [type |-> type, hasPosition |-> hasPosition, position |-> position,
   strength |-> strength, radius |-> radius, hasDirection |-> hasDirection,
   direction |-> direction, falloff |-> falloff]

ForcePool ==
  { Force("gravity", FALSE, ZeroVector, U(5), U(1), FALSE, ZeroVector, "constant"),
    Force("attraction", TRUE, ZeroVector, U(50), U(10), FALSE, ZeroVector, "linear"),
    Force("repulsion", TRUE, ZeroVector, U(50), U(10), FALSE, ZeroVector, "quadratic"),
    Force("wind", FALSE, ZeroVector, U(2), U(1), TRUE, Vec(Scale, 0, 0), "constant"),
    Force("vortex", TRUE, ZeroVector, U(20), U(10), FALSE, ZeroVector, "exponential"),
    Force("turbulence", TRUE, ZeroVector, U(10), U(1), FALSE, ZeroVector, "constant") }

\* deltaTime arguments of update, in milliseconds.
Deltas == {8, 10000}

\* Date.now() * 0.001 at an update, reduced to two wall-clock readings.
Clocks == {0, 150}

\* Acceleration contributions a caller writes into a particle.
Injections == {Vec(U(10), 0, 0), Vec(0, U(-4), 0)}

(***************************************************************************)
(* DancePatternEngine (PhysicsEngine.ts 585-879).  Times are integers in   *)
(* milliseconds, indices are integers, everything else is fixed-point.     *)
(* A params field that the caller left out is Undefined.                   *)
(***************************************************************************)
Undefined == NaN + 1

\* a || b on numbers: b when a is undefined, 0 or NaN.
orDefault(a, b) == IF a = Undefined \/ a = 0 \/ a = NaN THEN b ELSE a

\* time * 0.001
seconds(time) == Quot(time * Scale, 1000)

\* time * (k / 1000), for the per-millisecond rates of ParticleCanvas.
milli(time, k) == Quot(time * k * Scale, 1000)

smoothStep(t) == fmul(fmul(t, t), fsub(U(3), fmul(U(2), t)))

blendPositions(pos1, pos2, blend) ==
  LET smoothBlend == smoothStep(blend)
  IN Vec(fadd(pos1.x, fmul(fsub(pos2.x, pos1.x), smoothBlend)),
         fadd(pos1.y, fmul(fsub(pos2.y, pos1.y), smoothBlend)),
         fadd(pos1.z, fmul(fsub(pos2.z, pos1.z), smoothBlend)))

\* (index * 137.5) % 360, in degrees.
goldenAngle(index) == JsMod(index * 13750, U(360))

radians(degrees) == fdiv(fmul(degrees, Pi), U(180))

getCircleFormation(index, radius) ==
  LET angle == goldenAngle(index)
  IN Vec(fmul(Cos(radians(angle)), radius),
         fmul(Sin(radians(angle)), radius),
         0)

\* 13 cos t - 5 cos 2t - 2 cos 3t - cos 4t
heartY(t) ==
  fsub(fsub(fsub(fmul(U(13), Cos(t)),
                 fmul(U(5), Cos(fmul(U(2), t)))),
            fmul(U(2), Cos(fmul(U(3), t)))),
       Cos(fmul(U(4), t)))

\* 16 sin^3 t
heartX(t) == fmul(U(16), fmul(fmul(Sin(t), Sin(t)), Sin(t)))

getHeartFormation(index, scale) ==
  LET t == fmul(fmul(fdiv(U(index), U(100)), Pi), U(2))
  IN Vec(fdiv(fmul(heartX(t), scale), U(16)),
         fdiv(fmul(heartY(t), scale), U(16)),
         fmul(fmul(Sin(fmul(t, U(2))), scale), 20))

getStarFormation(index, scale) ==
  LET points == 5
      angle == fmul(fmul(fdiv(U(index), U(20)), Pi), U(2))
      pointAngle == fdiv(fmul(Pi, U(2)), U(points))
      starAngle == fmul(U(FloorDiv(angle, pointAngle)), pointAngle)
      radius == fmul(scale, fadd(50, fmul(50, Cos(fmul(angle, U(points))))))
  IN Vec(fmul(Cos(starAngle), radius),
         fmul(Sin(starAngle), radius),
         fmul(fmul(Sin(fmul(angle, U(points))), scale), 30))

createBeatPulse(beatPhase, intensity) ==
  IF flt(beatPhase, 10)
    THEN fmul(fsub(Scale, fdiv(beatPhase, 10)), intensity)
    ELSE fmax(0, fmul(fmul(fsub(Scale, beatPhase), 30), intensity))

createSnapMovement(time, index, intensity) ==
  LET snapFreq == 2
      snapPhase == JsMod(fadd(fmul(time, U(snapFreq)), index * 10), Scale)
  IN Vec(fmul(fmul(Sin(fmul(fmul(snapPhase, Pi), U(2))), U(30)), intensity),
         fmul(fmul(Cos(fmul(fmul(snapPhase, Pi), U(2))), U(25)), intensity),
         fmul(fmul(Sin(fmul(fmul(snapPhase, Pi), U(4))), U(15)), intensity))

\* execute of the move createContemporaryFlow returns.
createContemporaryFlow(time, index, params) ==
  LET t == seconds(time)
      phase == index * 10
      flow == orDefault(params.flowIntensity, Scale)
      primaryWave == fmul(fmul(Sin(fadd(fmul(t, 80), phase)), U(80)), flow)
      secondaryWave ==
        fmul(fmul(Sin(fadd(fmul(t, 120), fmul(phase, 70))), U(40)), flow)
      verticalFlow ==
        fmul(fmul(Sin(fadd(fmul(t, 60), fmul(phase, 130))), U(60)), flow)
      organicX == fmul(Sin(fadd(fmul(t, 30), fmul(phase, U(2)))), U(20))
      organicY == fmul(Cos(fadd(fmul(t, 40), fmul(phase, 150))), U(15))
  IN Vec(fadd(fadd(primaryWave, secondaryWave), organicX),
         fadd(verticalFlow, organicY),
         fmul(fmul(Sin(fadd(fmul(t, 50), phase)), U(30)), flow))

\* execute of the move createRhythmicBeat returns; bpm is this.bpm, which the
\* arrow function reads from the engine when it is called.
\* beatPhase of createRhythmicBeat: ((t * this.bpm) / 60) % 1.
rhythmicBeatPhase(time, thisBpm) ==
  JsMod(fdiv(fmul(seconds(time), U(thisBpm)), U(60)), Scale)

createRhythmicBeat(time, index, params, thisBpm) ==
  LET t == seconds(time)
      beatPhase == rhythmicBeatPhase(time, thisBpm)
      beatIntensity == orDefault(params.beatIntensity, Scale)
      beatPulse == createBeatPulse(beatPhase, beatIntensity)
      snapMovement == createSnapMovement(t, index, beatIntensity)
      gridX == U((JsMod(index, 10) - 5) * 25)
      gridY == U((FloorDiv(index, 10) - 5) * 25)
  IN Vec(fadd(gridX, fmul(snapMovement.x, beatPulse)),
         fadd(gridY, fmul(snapMovement.y, beatPulse)),
         fmul(fmul(snapMovement.z, beatPulse), 50))

\* The layer without the wrap-around to three layers.
spiralLayerUnwrapped(index) == FloorDiv(index, 20)

\* layer of createSpiralFormation.
spiralLayer(index) == JsMod(FloorDiv(index, 20), 3)

\* layerRadius of createSpiralFormation.
spiralLayerRadius(index, formationSize) ==
  fmul(formationSize, 30 + spiralLayer(index) * 35)

\* angle of createSpiralFormation.
spiralFormationAngle(time, index, params) ==
  LET t == seconds(time)
      spiralSpeed == orDefault(params.spiralSpeed, Scale)
      layerSpeed == fmul(spiralSpeed, Scale + spiralLayer(index) * 20)
  IN fadd(fmul(t, layerSpeed), Quot(JsMod(index, 20) * 314, 10))

\* execute of the move createSpiralFormation returns.
createSpiralFormation(time, index, params) ==
  LET t == seconds(time)
      spiralSpeed == orDefault(params.spiralSpeed, Scale)
      formationSize == orDefault(params.formationSize, U(100))
      layer == spiralLayer(index)
      layerRadius == spiralLayerRadius(index, formationSize)
      angle == spiralFormationAngle(time, index, params)
      radiusModulation == fmul(Sin(fadd(fmul(t, 50), index * 10)), U(20))
      currentRadius == fadd(layerRadius, radiusModulation)
      verticalWave == fmul(Sin(fadd(fmul(t, 80), angle)), U(40))
  IN Vec(fmul(Cos(angle), currentRadius),
         fadd(verticalWave, U(layer * 30)),
         fmul(Sin(angle), currentRadius))

\* currentPos of createFlowingFormation: the blend of the formations.
flowingFormationTarget(time, index) ==
  LET t == seconds(time)
      morphCycle == 8
      morphTime == fdiv(JsMod(t, U(morphCycle)), U(morphCycle))
      formation1 == getCircleFormation(index, U(80))
      formation2 == getHeartFormation(index, U(60))
      formation3 == getStarFormation(index, U(70))
  IN IF flt(morphTime, 33)
       THEN blendPositions(formation1, formation2, fdiv(morphTime, 33))
     ELSE IF flt(morphTime, 66)
       THEN blendPositions(formation2, formation3,
                           fdiv(fsub(morphTime, 33), 33))
     ELSE blendPositions(formation3, formation1,
                         fdiv(fsub(morphTime, 66), 34))

\* The flowing motion createFlowingFormation adds to currentPos.
flowingMotion(time, index) ==
  LET t == seconds(time)
  IN Vec(fmul(Sin(fadd(fmul(t, 40), index * 10)), U(15)),
         fmul(Cos(fadd(fmul(t, 30), index * 15)), U(10)),
         fmul(Sin(fadd(fmul(t, 50), index * 20)), U(20)))

\* execute of the move createFlowingFormation returns.
createFlowingFormation(time, index, params) ==
  LET currentPos == flowingFormationTarget(time, index)
      flow == flowingMotion(time, index)
  IN Vec(fadd(currentPos.x, flow.x),
         fadd(currentPos.y, flow.y),
         fadd(currentPos.z, flow.z))

\* The name of the DanceMove that the switch of useParticleSystem.animate
\* creates for a pattern name.
currentMove(name) ==
  CASE name = "wave" -> "Contemporary Flow"
    [] name = "spiral" -> "Spiral Formation"
    [] name = "bounce" -> "Rhythmic Beat"
    [] name = "flow" -> "Flowing Formation"
    [] OTHER -> "Contemporary Flow"

\* move.execute(particle, time, index, params) on an engine whose bpm field
\* holds thisBpm.
execute(move, time, index, params, thisBpm) ==
  CASE move = "Contemporary Flow" -> createContemporaryFlow(time, index, params)
    [] move = "Spiral Formation" -> createSpiralFormation(time, index, params)
    [] move = "Rhythmic Beat" -> createRhythmicBeat(time, index, params, thisBpm)
    [] move = "Flowing Formation" -> createFlowingFormation(time, index, params)

\* this.beatTime after updateTime.
beatOf(time, thisBpm) == JsMod(Quot(time * thisBpm * Scale, 60000), Scale)

(***************************************************************************)
(* ParticleCanvas.updateParticles (ParticleCanvas.tsx 227-345): the        *)
(* position, relative to the canvas centre, that the switch on the pattern *)
(* name computes for a particle.                                           *)
(***************************************************************************)
Point(x, y) == [x |-> x, y |-> y]

canvasWave(time, index) ==
  LET flowX == fadd(fmul(Sin(fadd(milli(time, 8), index * 10)), U(80)),
                    fmul(Sin(fadd(milli(time, 12), index * 7)), U(40)))
      flowY == fadd(fmul(Sin(fadd(milli(time, 6), index * 13)), U(60)),
                    fmul(Cos(fadd(milli(time, 4), index * 15)), U(15)))
  IN Point(fadd(flowX, fmul(Sin(fadd(milli(time, 3), U(index * 2))), U(20))),
           fadd(flowY, fmul(Cos(fadd(milli(time, 4), index * 150)), U(15))))

canvasSpiral(time, index) ==
  LET layer == JsMod(FloorDiv(index, 20), 3)
      layerRadius == fadd(fmul(U(60), 40 + layer * 30),
                          fmul(Sin(fadd(milli(time, 5), index * 10)), U(20)))
      layerSpeed == Scale + layer * 20
      spiralAngle == fadd(Quot(time * layerSpeed * 2, Scale),
                          Quot(JsMod(index, 20) * 314, 10))
      verticalWave == fmul(Sin(fadd(milli(time, 8), spiralAngle)), U(40))
  IN Point(fmul(Cos(spiralAngle), layerRadius),
           fadd(verticalWave, U(layer * 30)))

canvasBounce(time, index) ==
  LET beatPhase == JsMod(milli(time, 2), Scale)
      beatPulse == IF flt(beatPhase, 10)
                     THEN fsub(Scale, fdiv(beatPhase, 10))
                     ELSE fmax(0, fmul(fsub(Scale, beatPhase), 30))
      gridX == U((JsMod(index, 10) - 5) * 25)
      gridY == U((FloorDiv(index, 10) - 5) * 25)
      snapPhase == JsMod(fadd(milli(time, 4), index * 10), Scale)
      snapX == fmul(Sin(fmul(fmul(snapPhase, Pi), U(2))), U(30))
      snapY == fmul(Cos(fmul(fmul(snapPhase, Pi), U(2))), U(25))
  IN Point(fadd(gridX, fmul(snapX, beatPulse)),
           fadd(gridY, fmul(snapY, beatPulse)))

\* The circle and heart formations of the flow branch.
canvasCircle(index) ==
  LET circleAngle == goldenAngle(index)
      circleRadius == U(80)
  IN Point(fmul(Cos(radians(circleAngle)), circleRadius),
           fmul(Sin(radians(circleAngle)), circleRadius))

canvasHeart(index) ==
  LET heartT == fmul(fmul(fdiv(U(index), U(100)), Pi), U(2))
      heartScale == U(60)
  IN Point(fdiv(fmul(heartX(heartT), heartScale), U(16)),
           fdiv(fmul(heartY(heartT), heartScale), U(16)))

\* blendX, blendY of the flow branch.
canvasFlowTarget(time, index) ==
  LET morphCycle == 8000
      morphTime == Quot(JsMod(time, morphCycle) * Scale, morphCycle)
      circle == canvasCircle(index)
      heart == canvasHeart(index)
      blend == IF flt(morphTime, 50)
                 THEN fdiv(morphTime, 50)
                 ELSE fdiv(fsub(morphTime, 50), 50)
      smoothBlend == fmul(fmul(blend, blend), fsub(U(3), fmul(U(2), blend)))
  IN IF flt(morphTime, 50)
       THEN Point(fadd(circle.x, fmul(fsub(heart.x, circle.x), smoothBlend)),
                  fadd(circle.y, fmul(fsub(heart.y, circle.y), smoothBlend)))
       ELSE Point(fadd(heart.x, fmul(fsub(circle.x, heart.x), smoothBlend)),
                  fadd(heart.y, fmul(fsub(circle.y, heart.y), smoothBlend)))

\* flowMotionX, flowMotionY of the flow branch.
canvasFlowMotion(time, index) ==
  Point(fmul(Sin(fadd(milli(time, 4), index * 10)), U(15)),
        fmul(Cos(fadd(milli(time, 3), index * 15)), U(10)))

canvasFlow(time, index) ==
  LET target == canvasFlowTarget(time, index)
      motion == canvasFlowMotion(time, index)
  IN Point(fadd(target.x, motion.x), fadd(target.y, motion.y))

\* The switch on patternTypeRef.current.
newPos(name, time, index) ==
  CASE name = "wave" -> canvasWave(time, index)
    [] name = "spiral" -> canvasSpiral(time, index)
    [] name = "bounce" -> canvasBounce(time, index)
    [] OTHER -> canvasFlow(time, index)

\* The pattern names the editor offers, and one it does not.
KnownPatterns == {"wave", "spiral", "bounce", "flow"}
PatternNames == KnownPatterns \cup {"burst"}

\* Arguments of execute: timestamps in milliseconds, particle indices, and
\* the params object, as the frame driver builds it (every field set from
\* animationSpeed) and with every field left out.
DanceTimes == {0, 100, 4000}
CanvasTimes == {0, 4000}
DanceIndices == {0, 21}

Params(speed, size) ==
  [flowIntensity |-> speed, beatIntensity |-> speed, spiralSpeed |-> speed,
   burstIntensity |-> speed, flowSpeed |-> speed, formationSize |-> size]

ParamsPool == {Params(Scale, U(120)), Params(Undefined, Undefined)}

Tempos == {60, 120}
FrameTimes == {250, 500}

(***************************************************************************)
(* The template store (templateStore.ts 137-287, constants.ts 44-48).      *)
(* particleCount is an integer; animationSpeed and fps are fixed-point.    *)
(***************************************************************************)
DEFAULT_PARTICLES == 500
MIN_PARTICLES == 10
MAX_PARTICLES == 2000

\* Math.max(lo, Math.min(hi, value))
clamp(lo, hi, value) == fmax(lo, fmin(hi, value))

\* counts[mode] of setPerformanceMode.
counts(mode) ==
  CASE mode = "low" -> 200
    [] mode = "medium" -> 500
    [] mode = "high" -> 1000

\* The mode updateFPS selects in auto mode.
modeForFps(newFps) ==
  IF flt(newFps, U(30)) THEN "low"
  ELSE IF flt(newFps, U(45)) THEN "medium"
  ELSE "high"

PerformanceModes == {"auto", "high", "medium", "low"}

\* Arguments of the store's operations.
CountInputs == {5, 10, 750, 2000, 5000}
SpeedInputs == {5, 10, 250, 500, 700}
TemplateCounts == {100, 5000}
FpsInputs == {U(20), U(40), U(60)}

(***************************************************************************)
(* State.                                                                  *)
(***************************************************************************)
VARIABLES
  heap,         \* particle objects, by object name 1..Len(heap)
  particles,    \* this.particles: the object names in the engine's array
  forces,       \* this.forces
  config,       \* this.config
  spatialGrid,  \* this.spatialGrid
  held,         \* the array a caller got from getParticles()
  added,        \* history: each object as it was handed to addParticle
  updates,      \* history: number of update calls so far
  injected,     \* history: a caller wrote accelerations since the last update
  last,         \* history: the last call and its arguments
  currentTime,  \* DancePatternEngine.currentTime, in milliseconds
  beatTime,     \* DancePatternEngine.beatTime
  bpm,          \* DancePatternEngine.bpm
  patternType,  \* the store's pattern name, as both dispatches read it
  call,         \* history: the last execute call, its arguments and result
  shown,        \* history: the last position ParticleCanvas computed
  particleCount,    \* the store's particleCount
  animationSpeed,   \* the store's animationSpeed
  performanceMode,  \* the store's performanceMode
  fps,              \* the store's fps
  templateCount,    \* the store's currentTemplate.config.particles.count
  particlesRef      \* useParticleSystem's particlesRef.current: object names

engineVars == <<heap, particles, forces, config, spatialGrid, held, added,
                updates, injected, last>>

danceVars == <<currentTime, beatTime, bpm, patternType, call, shown>>

storeVars == <<particleCount, animationSpeed, performanceMode, fps,
               templateCount>>

vars == <<engineVars, danceVars, storeVars, particlesRef>>

\* `last` is the last call when that was update, removeParticle or a caller's
\* write to a particle, with its arguments, and NoCall after any other call.
NoCall == [op |-> "none", delta |-> 0, found |-> FALSE]

\* The caller's reference: none taken, the engine's current array ("live"),
\* or an array the engine has since replaced ("stale"), with its contents.
NoReference == [state |-> "none", items |-> <<>>]

NoExecute ==
  [made |-> FALSE, name |-> "", move |-> "", time |-> 0, index |-> 0,
   params |-> Params(Undefined, Undefined), offset |-> ZeroVector]

NoFrame ==
  [made |-> FALSE, name |-> "", time |-> 0, index |-> 0, pos |-> Point(0, 0)]

\* What the caller's reference shows.
View == IF held.state = "live" THEN particles ELSE held.items

Init ==
  /\ heap = <<>>
  /\ particles = <<>>
  /\ forces = <<>>
  /\ config \in ConfigPool
  /\ spatialGrid = <<>>
  /\ held = NoReference
  /\ added = <<>>
  /\ updates = 0
  /\ injected = FALSE
  /\ last = NoCall
  /\ currentTime = 0
  /\ beatTime = 0
  /\ bpm = 120
  /\ patternType = "wave"
  /\ call = NoExecute
  /\ shown = NoFrame
  /\ particleCount = DEFAULT_PARTICLES
  /\ animationSpeed = Scale
  /\ performanceMode = "auto"
  /\ fps = 60
  /\ templateCount = DEFAULT_PARTICLES
  /\ particlesRef = <<>>

(***************************************************************************)
(* The engine's public methods.                                            *)
(***************************************************************************)
HasId(h, ps, id) == \E i \in 1..Len(ps) : h[ps[i]].id = id

\* filter that keeps the matching particles instead of the others.
removeParticleKeepingMatch(h, ps, id) == SelectSeq(ps, LAMBDA o : h[o].id = id)

\* Removal of the first matching particle only.
removeParticleFirstMatch(h, ps, id) ==
  IF \E i \in 1..Len(ps) : h[ps[i]].id = id
    THEN LET first == CHOOSE i \in 1..Len(ps) :
                        /\ h[ps[i]].id = id
                        /\ \A j \in 1..(i - 1) : h[ps[j]].id # id
         IN SubSeq(ps, 1, first - 1) \o SubSeq(ps, first + 1, Len(ps))
    ELSE ps

\* The contents of the array removeParticle assigns to this.particles.
removeParticle(h, ps, id) == SelectSeq(ps, LAMBDA o : h[o].id # id)

AddParticle(p) ==
  /\ heap' = Append(heap, p)
  /\ added' = Append(added, p)
  /\ particles' = Append(particles, Len(heap) + 1)
  /\ last' = NoCall
  /\ UNCHANGED <<forces, config, spatialGrid, held, updates, injected>>
  /\ UNCHANGED danceVars
  /\ UNCHANGED storeVars
  /\ UNCHANGED particlesRef

\* this.particles becomes a new array: a reference taken before keeps the old one.
RemoveParticle(id) ==
  /\ particles' = removeParticle(heap, particles, id)
  /\ held' = IF held.state = "live"
               THEN [state |-> "stale", items |-> particles]
               ELSE held
  /\ last' = [NoCall EXCEPT !.op = "removeParticle",
                            !.found = HasId(heap, particles, id)]
  /\ UNCHANGED <<heap, forces, config, spatialGrid, added, updates, injected>>
  /\ UNCHANGED danceVars
  /\ UNCHANGED storeVars
  /\ UNCHANGED particlesRef

AddForce(f) ==
  /\ forces' = Append(forces, f)
  /\ last' = NoCall
  /\ UNCHANGED <<heap, particles, config, spatialGrid, held, added, updates, injected>>
  /\ UNCHANGED danceVars
  /\ UNCHANGED storeVars
  /\ UNCHANGED particlesRef

ClearForces ==
  /\ forces' = <<>>
  /\ last' = NoCall
  /\ UNCHANGED <<heap, particles, config, spatialGrid, held, added, updates, injected>>
  /\ UNCHANGED danceVars
  /\ UNCHANGED storeVars
  /\ UNCHANGED particlesRef

Update(deltaTime, now) ==
  /\ updates < MaxUpdates
  /\ spatialGrid' = updateSpatialGrid(heap, particles)
  /\ heap' = update(heap, particles, forces, config, deltaTime, now)
  /\ updates' = updates + 1
  /\ injected' = FALSE
  /\ last' = [NoCall EXCEPT !.op = "update", !.delta = deltaTime]
  /\ UNCHANGED <<particles, forces, config, held, added>>
  /\ UNCHANGED danceVars
  /\ UNCHANGED storeVars
  /\ UNCHANGED particlesRef

GetParticles ==
  /\ held' = [state |-> "live", items |-> <<>>]
  /\ last' = NoCall
  /\ UNCHANGED <<heap, particles, forces, config, spatialGrid, added, updates, injected>>
  /\ UNCHANGED danceVars
  /\ UNCHANGED storeVars
  /\ UNCHANGED particlesRef

\* A caller adds a to the acceleration of every particle of the array it
\* holds (the forEach of useParticleSystem.animate, lines 140-169).
RECURSIVE injectAccelerationFrom(_, _, _, _)
injectAccelerationFrom(h, ps, k, a) ==
  IF k > Len(ps) THEN h
  ELSE injectAccelerationFrom(
         [h EXCEPT ![ps[k]].acceleration = addToVector(h[ps[k]].acceleration, a)],
         ps, k + 1, a)

injectAcceleration(h, ps, a) == injectAccelerationFrom(h, ps, 1, a)

\* The frame driver writes once per frame, before its update call.
InjectAcceleration(a) ==
  /\ held.state # "none"
  /\ ~injected
  /\ Len(View) > 0
  /\ heap' = injectAcceleration(heap, View, a)
  /\ injected' = TRUE
  /\ last' = [NoCall EXCEPT !.op = "inject"]
  /\ UNCHANGED <<particles, forces, config, spatialGrid, held, added, updates>>
  /\ UNCHANGED danceVars
  /\ UNCHANGED storeVars
  /\ UNCHANGED particlesRef

\* The frame driver's use of the engine (useParticleSystem): it populates the
\* engine and registers forces, then runs frames.
Next ==
  \/ \E p \in ParticlePool :
       updates = 0 /\ Len(heap) < MaxParticles /\ AddParticle(p)
  \/ \E f \in ForcePool :
       updates = 0 /\ Len(forces) < MaxForces /\ AddForce(f)
  \/ updates = 0 /\ ClearForces
  \/ \E id \in Ids : updates = 0 /\ RemoveParticle(id)
  \/ \E d \in Deltas, now \in Clocks : Update(d, now)

Spec == Init /\ [][Next]_vars

\* A caller that adds and removes particles at any time, keeps the array of
\* getParticles() and writes to its particles between frames.
CallerPool == {p \in ParticlePool : p.id # 3}

NextCaller ==
  \/ \E p \in CallerPool : Len(heap) < MaxParticles /\ AddParticle(p)
  \/ \E id \in Ids : RemoveParticle(id)
  \/ GetParticles
  \/ \E a \in Injections : InjectAcceleration(a)
  \/ Update(dtCapMs, 0)

SpecCaller == Init /\ [][NextCaller]_vars

\* A caller that only adds and removes particles, on a larger collection.
InitCollection == Init /\ config = DefaultConfig

NextCollection ==
  \/ \E p \in ParticlePool : Len(heap) < MaxCollection /\ AddParticle(p)
  \/ \E id \in Ids : RemoveParticle(id)

SpecCollection == InitCollection /\ [][NextCollection]_vars

\* Particles at the upper x face of the box of DefaultConfig, and one far
\* below the box next to one just inside its lower y face.
WallPool ==
  { Particle(0, Vec(U(99), 0, 0), Vec(U(200), 0, 0), Scale, Scale, FALSE),
    Particle(1, Vec(U(97), 0, 0), ZeroVector, Scale, Scale, FALSE),
    Particle(2, Vec(U(97), U(-260), 0), ZeroVector, Scale, Scale, FALSE),
    Particle(3, Vec(U(97), U(-98), 0), ZeroVector, Scale, Scale, FALSE) }

\* A caller that fills the engine with such particles and then runs frames.
NextWall ==
  \/ \E p \in WallPool :
       updates = 0 /\ Len(heap) < MaxParticles /\ AddParticle(p)
  \/ \E d \in Deltas : Update(d, 0)

SpecWall == InitCollection /\ [][NextWall]_vars

\* A caller that registers and clears forces between frames, on the frame
\* driver's configuration.
FreePool == {p \in ParticlePool : p.id \in {0, 3}}

InitForces == Init /\ config = DriverConfig

NextForces ==
  \/ \E p \in FreePool :
       updates = 0 /\ Len(heap) < MaxParticles /\ AddParticle(p)
  \/ \E f \in ForcePool : Len(forces) < MaxForceList /\ AddForce(f)
  \/ ClearForces
  \/ \E now \in Clocks : Update(dtCapMs, now)

SpecForces == InitForces /\ [][NextForces]_vars

\* A caller whose collection is empty or gets emptied and who calls every
\* public method on it, update while it is empty.
NextEmpty ==
  \/ \E p \in FreePool : Len(heap) < MaxParticles /\ AddParticle(p)
  \/ \E id \in Ids : RemoveParticle(id)
  \/ \E f \in ForcePool : Len(forces) < MaxForces /\ AddForce(f)
  \/ ClearForces
  \/ GetParticles
  \/ \E d \in Deltas, now \in Clocks : particles = <<>> /\ Update(d, now)

SpecEmpty == Init /\ [][NextEmpty]_vars

(***************************************************************************)
(* useParticleSystem.initializeParticles (lines 62-98), on a canvas of 200 *)
(* by 200 and an engine that exists.                                       *)
(***************************************************************************)
MaxCount == 3
MaxHeap == 5

\* 2 + Math.random() * 2, reduced to two draws.
SizeDraws == {U(2), U(3)}

\* The particle the loop creates for index i.
createParticle(i, size) ==
  LET angle == goldenAngle(i)
      radius == U(30 + (i % 5) * 15)
      centerX == U(100)
      centerY == U(100)
  IN [id |-> i,
      position |-> Vec(fadd(centerX, fmul(Cos(radians(angle)), radius)),
                       fadd(centerY, fmul(Sin(radians(angle)), radius)),
                       0),
      velocity |-> ZeroVector, acceleration |-> ZeroVector, mass |-> Scale,
      size |-> size, damping |-> 98, isFixed |-> FALSE]

\* forEach running over the engine's current array instead of the array that
\* getParticles returned.
RECURSIVE clearParticlesLiveFrom(_, _, _)
clearParticlesLiveFrom(h, ps, k) ==
  IF k > Len(ps) THEN ps
  ELSE clearParticlesLiveFrom(h, removeParticle(h, ps, h[ps[k]].id), k + 1)

clearParticlesLive(h, ps) == clearParticlesLiveFrom(h, ps, 1)

\* getParticles().forEach((p) => removeParticle(p.id)): forEach runs over the
\* array `old` that getParticles returned, which removeParticle never
\* changes, while the engine's array ps is replaced at every call.
RECURSIVE clearParticlesFrom(_, _, _, _)
clearParticlesFrom(h, old, ps, k) ==
  IF k > Len(old) THEN ps
  ELSE clearParticlesFrom(h, old, removeParticle(h, ps, h[old[k]].id), k + 1)

clearParticles(h, ps) == clearParticlesFrom(h, ps, ps, 1)

InitializeParticles(count, sizes) ==
  /\ Len(heap) + count <= MaxHeap
  /\ LET created == [i \in 1..count |-> createParticle(i - 1, sizes[i])]
         names == [i \in 1..count |-> Len(heap) + i]
     IN /\ heap' = heap \o created
        /\ added' = added \o created
        /\ particles' = clearParticles(heap, particles) \o names
        /\ particlesRef' = names
  /\ held' = IF held.state = "live" /\ particles # <<>>
               THEN [state |-> "stale", items |-> particles]
               ELSE held
  /\ last' = [NoCall EXCEPT !.op = "initializeParticles"]
  /\ UNCHANGED <<forces, config, spatialGrid, updates, injected>>
  /\ UNCHANGED danceVars
  /\ UNCHANGED storeVars

\* The frame driver re-initialising an engine that another caller has put
\* particles into, or that holds the particles of an earlier initialisation.
NextDriver ==
  \/ \E p \in ParticlePool : Len(heap) < MaxParticles /\ AddParticle(p)
  \/ \E count \in 0..MaxCount : \E sizes \in [1..count -> SizeDraws] :
       InitializeParticles(count, sizes)

SpecDriver == InitForces /\ [][NextDriver]_vars

(***************************************************************************)
(* The DancePatternEngine's public methods, the store's pattern name and   *)
(* the two pattern dispatches.                                             *)
(***************************************************************************)
UpdateTime(deltaTime) ==
  /\ currentTime + deltaTime <= MaxCurrentTime
  /\ currentTime' = currentTime + deltaTime
  /\ beatTime' = beatOf(currentTime + deltaTime, bpm)
  /\ UNCHANGED <<bpm, patternType, call, shown>>
  /\ UNCHANGED engineVars
  /\ UNCHANGED storeVars
  /\ UNCHANGED particlesRef

SetBPM(newBpm) ==
  /\ bpm' = newBpm
  /\ UNCHANGED <<currentTime, beatTime, patternType, call, shown>>
  /\ UNCHANGED engineVars
  /\ UNCHANGED storeVars
  /\ UNCHANGED particlesRef

\* templateStore.setPatternType: any string is accepted.
SetPatternType(pattern) ==
  /\ patternType' = pattern
  /\ UNCHANGED <<currentTime, beatTime, bpm, call, shown>>
  /\ UNCHANGED engineVars
  /\ UNCHANGED storeVars
  /\ UNCHANGED particlesRef

\* The frame driver creates the move for the current pattern name and calls
\* its execute for a particle (useParticleSystem.animate, lines 119-153).
Execute(time, index, params) ==
  /\ call' = [made |-> TRUE, name |-> patternType,
              move |-> currentMove(patternType),
              time |-> time, index |-> index, params |-> params,
              offset |-> execute(currentMove(patternType), time, index,
                                 params, bpm)]
  /\ UNCHANGED <<currentTime, beatTime, bpm, patternType, shown>>
  /\ UNCHANGED engineVars
  /\ UNCHANGED storeVars
  /\ UNCHANGED particlesRef

\* ParticleCanvas computes the new position of a particle for the current
\* pattern name.
UpdateParticles(time, index) ==
  /\ shown' = [made |-> TRUE, name |-> patternType, time |-> time,
               index |-> index, pos |-> newPos(patternType, time, index)]
  /\ UNCHANGED <<currentTime, beatTime, bpm, patternType, call>>
  /\ UNCHANGED engineVars
  /\ UNCHANGED storeVars
  /\ UNCHANGED particlesRef

InitDance == Init /\ config = DriverConfig

NextDance ==
  \/ \E deltaTime \in FrameTimes : UpdateTime(deltaTime)
  \/ \E newBpm \in Tempos : SetBPM(newBpm)
  \/ \E pattern \in PatternNames : SetPatternType(pattern)
  \/ \E time \in DanceTimes, index \in DanceIndices, params \in ParamsPool :
       Execute(time, index, params)
  \/ \E time \in CanvasTimes, index \in DanceIndices :
       UpdateParticles(time, index)

SpecDance == InitDance /\ [][NextDance]_vars

\* The frame driver executing the move of any pattern for any particle
\* index of a system of MaxIndex + 1 particles; a behaviour follows one
\* execute call.
NextPattern ==
  \/ \E pattern \in PatternNames : SetPatternType(pattern)
  \/ \E time \in DanceTimes, index \in 0..MaxIndex, params \in ParamsPool :
       ~call.made /\ Execute(time, index, params)

SpecPattern == InitDance /\ [][NextPattern]_vars

\* Timestamps around the beat cycles of both tempos, before and after 0, and
\* the beatIntensity the caller passes.
BeatTimes == {-750, -250, -30, 0, 20, 50, 100, 250, 490, 500, 750, 1000}
BeatParams == ParamsPool \cup {Params(2 * Scale, U(120))}

\* The frame driver executing the move of the bounce pattern at any tempo; a
\* behaviour follows one execute call.
NextBeat ==
  \/ \E newBpm \in Tempos : ~call.made /\ SetBPM(newBpm)
  \/ ~call.made /\ SetPatternType("bounce")
  \/ \E time \in BeatTimes, index \in DanceIndices, params \in BeatParams :
       ~call.made /\ Execute(time, index, params)

SpecBeat == InitDance /\ [][NextBeat]_vars

\* The params objects of a caller that also sets every multiplier to 0.
ScaledParams == BeatParams \cup {Params(0, U(120))}

\* The frame driver executing the move of any pattern with any of these
\* params; a behaviour follows one execute call.
NextScaled ==
  \/ \E pattern \in PatternNames : ~call.made /\ SetPatternType(pattern)
  \/ \E time \in DanceTimes, index \in DanceIndices, params \in ScaledParams :
       ~call.made /\ Execute(time, index, params)

SpecScaled == InitDance /\ [][NextScaled]_vars

(***************************************************************************)
(* The store's operations.                                                 *)
(***************************************************************************)
LoadTemplate(count) ==
  /\ templateCount' = count
  /\ particleCount' = count
  /\ UNCHANGED <<animationSpeed, performanceMode, fps>>
  /\ UNCHANGED <<engineVars, danceVars, particlesRef>>

ResetTemplate ==
  /\ templateCount' = DEFAULT_PARTICLES
  /\ particleCount' = DEFAULT_PARTICLES
  /\ animationSpeed' = Scale
  /\ patternType' = "wave"
  /\ UNCHANGED <<performanceMode, fps>>
  /\ UNCHANGED <<currentTime, beatTime, bpm, call, shown>>
  /\ UNCHANGED <<engineVars, particlesRef>>

\* setParticleCount also writes the clamped count into the current template.
SetParticleCount(count) ==
  /\ particleCount' = clamp(MIN_PARTICLES, MAX_PARTICLES, count)
  /\ templateCount' = clamp(MIN_PARTICLES, MAX_PARTICLES, count)
  /\ UNCHANGED <<animationSpeed, performanceMode, fps>>
  /\ UNCHANGED <<engineVars, danceVars, particlesRef>>

SetAnimationSpeed(speed) ==
  /\ animationSpeed' = clamp(10, 500, speed)
  /\ UNCHANGED <<particleCount, performanceMode, fps, templateCount>>
  /\ UNCHANGED <<engineVars, danceVars, particlesRef>>

\* setPerformanceMode calls setParticleCount(counts[mode]) unless mode is auto.
SetPerformanceMode(mode) ==
  /\ performanceMode' = mode
  /\ IF mode # "auto"
       THEN /\ particleCount' = clamp(MIN_PARTICLES, MAX_PARTICLES, counts(mode))
            /\ templateCount' = clamp(MIN_PARTICLES, MAX_PARTICLES, counts(mode))
       ELSE UNCHANGED <<particleCount, templateCount>>
  /\ UNCHANGED <<animationSpeed, fps>>
  /\ UNCHANGED <<engineVars, danceVars, particlesRef>>

\* updateFPS calls setPerformanceMode with the mode for the rate when the
\* mode is auto.
UpdateFPS(newFps) ==
  /\ fps' = newFps
  /\ IF performanceMode = "auto"
       THEN /\ performanceMode' = modeForFps(newFps)
            /\ particleCount' = clamp(MIN_PARTICLES, MAX_PARTICLES,
                                      counts(modeForFps(newFps)))
            /\ templateCount' = clamp(MIN_PARTICLES, MAX_PARTICLES,
                                      counts(modeForFps(newFps)))
       ELSE UNCHANGED <<performanceMode, particleCount, templateCount>>
  /\ UNCHANGED animationSpeed
  /\ UNCHANGED <<engineVars, danceVars, particlesRef>>

NextStore ==
  \/ \E count \in TemplateCounts : LoadTemplate(count)
  \/ ResetTemplate
  \/ \E count \in CountInputs : SetParticleCount(count)
  \/ \E speed \in SpeedInputs : SetAnimationSpeed(speed)
  \/ \E mode \in PerformanceModes : SetPerformanceMode(mode)
  \/ \E newFps \in FpsInputs : UpdateFPS(newFps)

SpecStore == InitDance /\ [][NextStore]_vars

(***************************************************************************)
(* Properties of the physics engine.                                       *)
(***************************************************************************)
Engine == {particles[i] : i \in 1..Len(particles)}

NonFixed == {o \in Engine : ~heap[o].isFixed}

BoundsOrdered(c) ==
  /\ c.boundaries.min.x <= c.boundaries.max.x
  /\ c.boundaries.min.y <= c.boundaries.max.y
  /\ c.boundaries.min.z <= c.boundaries.max.z

Within(a, lo, hi) == a # NaN /\ lo <= a /\ a <= hi

InBounds(position, c) ==
  /\ Within(position.x, c.boundaries.min.x, c.boundaries.max.x)
  /\ Within(position.y, c.boundaries.min.y, c.boundaries.max.y)
  /\ Within(position.z, c.boundaries.min.z, c.boundaries.max.z)

\* C1: with collisions disabled and boundaries.min <= boundaries.max, right
\* after every update call each non-fixed particle of the collection lies
\* within [boundaries.min, boundaries.max] on x, y and z.
C1_BoundaryContainment ==
  (last.op = "update" /\ ~config.collisions.enabled /\ BoundsOrdered(config))
    => \A o \in NonFixed : InBounds(heap[o].position, config)

\* An update with collisions disabled has brought a particle that started
\* inside the box on x and outside it on y onto the x and y faces of the box,
\* while a force was registered.
C1_Witness ==
  /\ last.op = "update" /\ ~config.collisions.enabled /\ Len(forces) > 0
  /\ \E o \in NonFixed :
       /\ added[o].position.x < config.boundaries.max.x
       /\ added[o].position.y < config.boundaries.min.y
       /\ heap[o].position.x = config.boundaries.max.x
       /\ heap[o].position.y = config.boundaries.min.y

\* C2: a fixed particle keeps the position and the velocity it was added
\* with, through every sequence of update calls and whatever forces are
\* registered.
C2_FixedImmovable ==
  \A o \in DOMAIN heap :
    heap[o].isFixed =>
      /\ heap[o].position = added[o].position
      /\ heap[o].velocity = added[o].velocity

\* Two updates with collisions enabled and a force registered have run on a
\* fixed particle and a non-fixed one that overlapped it and was moved.
C2_Witness ==
  /\ last.op = "update" /\ updates >= 2
  /\ config.collisions.enabled /\ Len(forces) > 0
  /\ \E o \in Engine, q \in NonFixed :
       /\ heap[o].isFixed
       /\ heap[o].id # heap[q].id
       /\ flt(vectorDistance(added[o].position, added[q].position),
              config.collisions.minDistance)
       /\ fgt(vectorDistance(added[o].position, added[q].position), 0)
       /\ heap[q].position # added[q].position

LongDeltas == {dtCapMs, dtCapMs + 1, 24, 10000}

\* C3: in every engine state, update(deltaTime) with deltaTime >= 16 leaves
\* the particles exactly as update(16) does.
C3_DtClamped ==
  \A d \in LongDeltas, now \in Clocks :
    update(heap, particles, forces, config, d, now)
      = update(heap, particles, forces, config, dtCapMs, now)

\* update(10000) has run and moved a particle by less than one unit on x.
C3_Witness ==
  /\ last.op = "update" /\ last.delta = 10000 /\ updates = 1
  /\ \E o \in NonFixed :
       /\ heap[o].position.x # added[o].position.x
       /\ Abs(heap[o].position.x - added[o].position.x) < Scale

\* The particles a caller can reach through the array it holds.
Reachable == IF held.state = "none" THEN {} ELSE {View[i] : i \in 1..Len(View)}

\* C4: an acceleration that a caller adds to a non-fixed particle obtained
\* from getParticles() before calling update takes part in that update: the
\* particle's velocity after the update differs from the velocity it would
\* have had without the contribution.
C4_InjectionTakesPart ==
  \A o \in Reachable \cap NonFixed, a \in Injections :
    update(injectAcceleration(heap, <<o>>, a), particles, forces, config,
           dtCapMs, 0)[o].velocity
      # update(heap, particles, forces, config, dtCapMs, 0)[o].velocity

\* C5: an array obtained once from getParticles() keeps showing exactly the
\* engine's current particle collection after any later addParticle and
\* removeParticle calls.
C5_LiveCollection == held.state # "none" => View = particles

\* C6: execute is a function of (time, index, params) alone: calling the
\* same move again with the arguments of an earlier call returns the offset
\* of that call, whatever updateTime and setBPM calls came in between.
C6_ExecuteStateless ==
  call.made =>
    execute(call.move, call.time, call.index, call.params, bpm) = call.offset

\* C7: for a pattern name outside {wave, spiral, bounce, flow} the frame
\* driver executes the wave move and ParticleCanvas computes the wave
\* position.
C7_UnknownFallsBackToWave ==
  /\ (call.made /\ call.name \notin KnownPatterns)
       => call.move = currentMove("wave")
  /\ (shown.made /\ shown.name \notin KnownPatterns)
       => shown.pos = newPos("wave", shown.time, shown.index)

\* The pairs that resolveCollision is called on when p1 is processed: two
\* different non-fixed particles of the collection, of different ids, closer
\* than minDistance and not at the same place.
Colliding(p1, p2) ==
  /\ p1 # p2
  /\ heap[p1].id # heap[p2].id
  /\ flt(vectorDistance(heap[p1].position, heap[p2].position),
         config.collisions.minDistance)
  /\ fgt(vectorDistance(heap[p1].position, heap[p2].position), 0)

CollisionNormal(p1, p2) ==
  normalizeVector(subtractVectors(heap[p1].position, heap[p2].position))

\* Approaching along the line that joins them: the relative velocity has a
\* negative component along the normal and none across it.
HeadOn(p1, p2) ==
  LET n == CollisionNormal(p1, p2)
      rel == subtractVectors(heap[p1].velocity, heap[p2].velocity)
      along == dotProduct(rel, n)
  IN /\ flt(along, 0)
     /\ rel = multiplyVector(n, along)

Momentum(h, p1, p2) ==
  addVectors(multiplyVector(h[p1].velocity, h[p1].mass),
             multiplyVector(h[p2].velocity, h[p2].mass))

AfterCollision(p1, p2) ==
  resolveCollision(heap, p1, p2,
                   vectorDistance(heap[p1].position, heap[p2].position),
                   config.collisions.minDistance, config)

\* C8: for two non-fixed particles of equal mass approaching head-on closer
\* than minDistance, with collisions.damping = 1.0, the collision response
\* exchanges their velocity components along the collision normal and keeps
\* the total momentum.
C8_ElasticExchange ==
  \A p1 \in NonFixed, p2 \in NonFixed :
    (/\ Colliding(p1, p2)
     /\ HeadOn(p1, p2)
     /\ heap[p1].mass = heap[p2].mass
     /\ config.collisions.damping = Scale)
    => LET n == CollisionNormal(p1, p2)
           after == AfterCollision(p1, p2)
       IN /\ dotProduct(after[p1].velocity, n) = dotProduct(heap[p2].velocity, n)
          /\ dotProduct(after[p2].velocity, n) = dotProduct(heap[p1].velocity, n)
          /\ Momentum(after, p1, p2) = Momentum(heap, p1, p2)

\* An update with perfectly elastic collisions, no gravity, no forces, no air
\* resistance and no velocity damping has run on two equal-mass particles
\* that approached head-on within minDistance, and each now has the velocity
\* the other was added with.
C8_Witness ==
  /\ last.op = "update" /\ updates = 1
  /\ config = ElasticConfig /\ forces = <<>>
  /\ \E p1 \in NonFixed, p2 \in NonFixed :
       /\ p1 # p2
       /\ added[p1].mass = added[p2].mass
       /\ added[p1].damping = Scale /\ added[p2].damping = Scale
       /\ added[p1].velocity.x > 0 /\ added[p2].velocity.x < 0
       /\ added[p1].position.x < added[p2].position.x
       /\ heap[p1].velocity = added[p2].velocity
       /\ heap[p2].velocity = added[p1].velocity

PositionalForces == {f \in ForcePool : f.type \in {"attraction", "repulsion", "vortex"}}

ParticleFinite(p) ==
  VecFinite(p.position) /\ VecFinite(p.velocity) /\ VecFinite(p.acceleration)

\* C9: with a valid configuration no particle ever holds a non-finite
\* position, velocity or acceleration, and a particle exactly at the position
\* of an attraction, repulsion or vortex force gets a zero contribution from
\* it.
C9_NoNaN ==
  /\ \A o \in DOMAIN heap : ParticleFinite(heap[o])
  /\ \A o \in DOMAIN heap, f \in PositionalForces, now \in Clocks :
       heap[o].position = f.position
         => calculateForce(f, heap[o], now) = ZeroVector

\* An update with collisions enabled has processed a non-fixed particle that
\* sat exactly on a registered attraction, repulsion or vortex force and
\* exactly on another particle of a different id.
C9_Witness ==
  /\ last.op = "update" /\ updates = 1 /\ config.collisions.enabled
  /\ \E o \in NonFixed, q \in Engine, k \in 1..Len(forces) :
       /\ o # q /\ heap[o].id # heap[q].id
       /\ forces[k] \in PositionalForces
       /\ added[o].position = forces[k].position
       /\ added[o].position = added[q].position

\* C10: removeParticle(id) with an id that no particle of the collection has
\* leaves the collection's contents and order, every particle and the force
\* list unchanged.
C10_RemoveAbsentNoOp ==
  [][\A id \in Ids :
       (RemoveParticle(id) /\ ~HasId(heap, particles, id))
         => (particles' = particles /\ heap' = heap /\ forces' = forces)]_vars

\* removeParticle was called with an id no particle had, on a collection
\* that holds particles while a force is registered.
C10_Witness ==
  /\ last.op = "removeParticle" /\ ~last.found
  /\ Len(particles) > 0 /\ Len(forces) > 0

(***************************************************************************)
(* Properties of the collection and of the force list.                     *)
(***************************************************************************)
\* The place of object o in the array ps.
IndexOf(ps, o) == CHOOSE i \in 1..Len(ps) : ps[i] = o

\* later lists objects of earlier only, each once, in the order of earlier.
KeepsOrder(earlier, later) ==
  /\ \A i \in 1..Len(later) : \E j \in 1..Len(earlier) : earlier[j] = later[i]
  /\ \A i \in 1..Len(later), j \in 1..Len(later) :
       i < j => IndexOf(earlier, later[i]) < IndexOf(earlier, later[j])

\* C11: addParticle(p) appends p at the end of the collection whatever ids
\* are present, and removeParticle(id) removes every particle with that id
\* and keeps all the others, in their relative order.
C11_AppendAndRemoveAll ==
  [][/\ \A p \in ParticlePool :
          AddParticle(p) =>
            /\ Len(particles') = Len(particles) + 1
            /\ SubSeq(particles', 1, Len(particles)) = particles
            /\ heap'[particles'[Len(particles')]] = p
     /\ \A id \in Ids :
          RemoveParticle(id) =>
            /\ \A i \in 1..Len(particles') : heap'[particles'[i]].id # id
            /\ \A i \in 1..Len(particles) :
                 heap[particles[i]].id # id
                   => \E j \in 1..Len(particles') : particles'[j] = particles[i]
            /\ KeepsOrder(particles, particles')]_vars

\* removeParticle found its id on a collection of four added particles, of
\* which the second and the fourth had the same id: the first and the third
\* are left, in that order.
C11_Witness ==
  /\ last.op = "removeParticle" /\ last.found
  /\ Len(heap) = 4
  /\ heap[2].id = heap[4].id
  /\ particles = <<1, 3>>

\* The sum of what each force of the list contributes to a particle.
RECURSIVE ForceSum(_, _, _)
ForceSum(forceList, particle, now) ==
  IF Len(forceList) = 0 THEN ZeroVector
  ELSE addVectors(calculateForce(Head(forceList), particle, now),
                  ForceSum(Tail(forceList), particle, now))

\* C12: addForce appends to the force list and clearForces empties it, and
\* an update uses exactly the forces registered when it is called: with
\* collisions disabled, the acceleration it leaves in every non-fixed
\* particle is the acceleration of the same update without any force plus
\* the contribution of each registered force, so nothing cleared before
\* contributes.
C12_ForceListEffective ==
  [][/\ \A f \in ForcePool : AddForce(f) => forces' = Append(forces, f)
     /\ ClearForces => forces' = <<>>
     /\ \A now \in Clocks :
          (Update(dtCapMs, now) /\ ~config.collisions.enabled) =>
            /\ forces' = forces
            /\ \A o \in NonFixed :
                 heap'[o].acceleration =
                   addVectors(
                     update(heap, particles, <<>>, config, dtCapMs, now)[o]
                       .acceleration,
                     ForceSum(forces, heap[o], now))]_vars

\* In the frame driver's configuration (no gravity, no collisions) a
\* particle added with no velocity on x has one after two updates, which
\* only a registered force can give it, and the last update ran after
\* clearForces: it left the particle with the acceleration of air resistance
\* alone.
C12_Witness ==
  /\ last.op = "update" /\ updates = 2 /\ forces = <<>>
  /\ \E o \in NonFixed :
       /\ added[o].velocity.x = 0
       /\ heap[o].velocity.x # 0
       /\ heap[o].acceleration # ZeroVector

\* C15: on an engine without particles, update (any deltaTime, any
\* registered forces, collisions enabled or not), removeParticle and
\* clearForces leave the collection empty and every particle object as it
\* was, and the array of getParticles is empty.
C15_EmptyCollection ==
  [][particles = <<>> =>
       /\ \A d \in Deltas, now \in Clocks :
            Update(d, now) =>
              particles' = <<>> /\ heap' = heap /\ spatialGrid' = <<>>
       /\ \A id \in Ids :
            RemoveParticle(id) => particles' = <<>> /\ heap' = heap
       /\ ClearForces => particles' = <<>> /\ heap' = heap
       /\ GetParticles => View' = <<>>]_vars

\* update ran with collisions enabled and a force registered on a collection
\* that had been emptied, while a caller held an array of getParticles.
C15_Witness ==
  /\ last.op = "update" /\ particles = <<>>
  /\ Len(heap) > 0 /\ Len(forces) > 0
  /\ config.collisions.enabled
  /\ held.state = "live"

(***************************************************************************)
(* Properties of one step of update.                                       *)
(***************************************************************************)
\* v * dt for a time step in milliseconds.
TimesDt(v, dtMs) == Vec(mulDt(v.x, dtMs), mulDt(v.y, dtMs), mulDt(v.z, dtMs))

\* The particle after one step by the kinematics of the step alone: the
\* acceleration is gravity * mass plus the force contributions minus
\* airResistance * velocity, then the velocity is updated and damped, then the
\* position is updated.
Kinematics(p, forceList, c, dtMs, now) ==
  LET a == addVectors(addVectors(multiplyVector(c.gravity, p.mass),
                                 ForceSum(forceList, p, now)),
                      multiplyVector(p.velocity, fneg(c.airResistance)))
      v == multiplyVector(addVectors(p.velocity, TimesDt(a, dtMs)), p.damping)
  IN [p EXCEPT !.acceleration = a,
               !.velocity = v,
               !.position = addVectors(p.position, TimesDt(v, dtMs))]

\* No collision handling takes part in the step of a particle.
NoCollisionHandling == ~config.collisions.enabled \/ Len(particles) = 1

\* C17: with collisions disabled, one update leaves every non-fixed particle
\* with a = gravity * mass + force contributions - airResistance * velocity
\* (whatever acceleration it held before), velocity' = (velocity + a * dt) *
\* damping and position' = position + velocity' * dt, clamped to the
\* boundaries as the last step.
C17_StepKinematics ==
  [][\A d \in Deltas, now \in Clocks :
       (Update(d, now) /\ NoCollisionHandling) =>
         \A o \in NonFixed :
           heap'[o] = handleBoundaries(
                        Kinematics(heap[o], forces, config, effectiveDt(d), now),
                        config)]_vars

\* A second update with collisions disabled and a force registered has run
\* on a particle with damping below 1 that held the acceleration of the
\* first update, and has moved it without the particle reaching a boundary.
C17_Witness ==
  /\ last.op = "update" /\ updates = 2
  /\ ~config.collisions.enabled /\ Len(forces) > 0
  /\ \E o \in NonFixed :
       /\ added[o].damping < Scale
       /\ heap[o].acceleration # ZeroVector
       /\ heap[o].position # added[o].position
       /\ heap[o].position.x < config.boundaries.max.x
       /\ heap[o].position.x > config.boundaries.min.x
       /\ heap[o].position.y < config.boundaries.max.y
       /\ heap[o].position.y > config.boundaries.min.y

\* One axis after the boundary handling: beyond a bound, the position is the
\* bound and the velocity component is multiplied by -bounce; within the
\* bounds, both are as the integration left them.
AxisReflected(pos, vel, pos1, vel1, lo, hi, bounce) ==
  /\ flt(pos, lo) => (pos1 = lo /\ vel1 = fmul(vel, fneg(bounce)))
  /\ fgt(pos, hi) => (pos1 = hi /\ vel1 = fmul(vel, fneg(bounce)))
  /\ Within(pos, lo, hi) => (pos1 = pos /\ vel1 = vel)

\* C18: after the integration of a step, each of x, y and z is handled on
\* its own: an axis whose position is beyond a bound is set to that bound and
\* has its velocity component multiplied by -bounce, and an axis whose
\* position is within the bounds keeps its position and velocity component.
C18_ReflectionPerAxis ==
  [][\A d \in Deltas, now \in Clocks :
       (Update(d, now) /\ NoCollisionHandling) =>
         \A o \in NonFixed :
           LET k == Kinematics(heap[o], forces, config, effectiveDt(d), now)
               b == config.boundaries
           IN /\ AxisReflected(k.position.x, k.velocity.x, heap'[o].position.x,
                               heap'[o].velocity.x, b.min.x, b.max.x, b.bounce)
              /\ AxisReflected(k.position.y, k.velocity.y, heap'[o].position.y,
                               heap'[o].velocity.y, b.min.y, b.max.y, b.bounce)
              /\ AxisReflected(k.position.z, k.velocity.z, heap'[o].position.z,
                               heap'[o].velocity.z, b.min.z, b.max.z, b.bounce)]_vars

\* One update has carried a particle beyond the upper x bound, where it was
\* clamped and its x velocity reversed, while it stayed within the z bounds
\* and kept the direction of its z velocity.
C18_Witness ==
  /\ last.op = "update" /\ updates = 1 /\ ~config.collisions.enabled
  /\ \E o \in NonFixed :
       /\ added[o].position.x < config.boundaries.max.x
       /\ added[o].velocity.x > 0
       /\ heap[o].position.x = config.boundaries.max.x
       /\ heap[o].velocity.x < 0
       /\ added[o].velocity.z < 0
       /\ heap[o].position.z > config.boundaries.min.z
       /\ heap[o].position.z < added[o].position.z
       /\ heap[o].velocity.z < 0

(***************************************************************************)
(* Properties of the collision resolution.                                 *)
(***************************************************************************)
\* (minDistance - d) / 2 for the pair.
HalfOverlap(p1, p2) ==
  fdiv(fsub(config.collisions.minDistance,
            vectorDistance(heap[p1].position, heap[p2].position)), U(2))

\* What the rounding of the normal, of the half overlap and of the distance
\* to two decimals can add up to for a pair: 0.02 * minDistance.  Distances
\* are equal when they differ by no more than this.
RoundingSlack == fmul(config.collisions.minDistance, 2)

\* C19: with collisions enabled, resolving a pair at distance d with
\* 0 < d < minDistance moves each non-fixed particle of the pair by
\* (minDistance - d) / 2 along the line joining them, in opposite directions,
\* which leaves two non-fixed particles minDistance apart (to the rounding of
\* the arithmetic), and changes neither the position nor the velocity of a fixed particle.
C19_Separation ==
  \A p1 \in Engine, p2 \in Engine :
    (config.collisions.enabled /\ Colliding(p1, p2))
    => LET n == CollisionNormal(p1, p2)
           after == AfterCollision(p1, p2)
           shift == multiplyVector(n, HalfOverlap(p1, p2))
       IN /\ ~heap[p1].isFixed
               => after[p1].position = addVectors(heap[p1].position, shift)
          /\ ~heap[p2].isFixed
               => after[p2].position = subtractVectors(heap[p2].position, shift)
          /\ (~heap[p1].isFixed /\ ~heap[p2].isFixed)
               => Abs(fsub(vectorDistance(after[p1].position, after[p2].position),
                           config.collisions.minDistance)) <= RoundingSlack
          /\ \A p \in {p1, p2} :
               heap[p].isFixed => /\ after[p].position = heap[p].position
                                  /\ after[p].velocity = heap[p].velocity

\* An update with collisions enabled has processed two non-fixed particles
\* that were added closer than minDistance and are no longer, and a fixed
\* particle is still where it was added.
C19_Witness ==
  /\ last.op = "update" /\ updates = 1 /\ config.collisions.enabled
  /\ \E p1 \in NonFixed, p2 \in NonFixed :
       /\ heap[p1].id # heap[p2].id
       /\ fgt(vectorDistance(added[p1].position, added[p2].position), 0)
       /\ flt(vectorDistance(added[p1].position, added[p2].position),
              config.collisions.minDistance)
       /\ ~flt(vectorDistance(heap[p1].position, heap[p2].position),
               config.collisions.minDistance)
       /\ heap[p1].position.x < added[p1].position.x
       /\ heap[p2].position.x > added[p2].position.x

\* The relative velocity of the pair along its collision normal.
VelocityAlongNormal(p1, p2) ==
  dotProduct(subtractVectors(heap[p1].velocity, heap[p2].velocity),
             CollisionNormal(p1, p2))

\* C20: when the relative velocity of a colliding pair along the collision
\* normal is greater than 0, the particles are separating and the collision
\* resolution leaves the velocities of both unchanged.
C20_NoImpulseWhenSeparating ==
  \A p1 \in Engine, p2 \in Engine :
    (/\ config.collisions.enabled
     /\ Colliding(p1, p2)
     /\ fgt(VelocityAlongNormal(p1, p2), 0))
    => LET after == AfterCollision(p1, p2)
       IN /\ after[p1].velocity = heap[p1].velocity
          /\ after[p2].velocity = heap[p2].velocity

\* Two updates with collisions enabled have run on a non-fixed particle that
\* was added moving towards a fixed one closer than minDistance: it has
\* turned around, and is still closer than minDistance to the fixed particle
\* while moving away from it.
C20_Witness ==
  /\ last.op = "update" /\ updates = 2 /\ config.collisions.enabled
  /\ \E p1 \in NonFixed, p2 \in Engine :
       /\ heap[p2].isFixed
       /\ Colliding(p1, p2)
       /\ fgt(VelocityAlongNormal(p1, p2), 0)
       /\ flt(dotProduct(subtractVectors(added[p1].velocity, added[p2].velocity),
                         normalizeVector(subtractVectors(added[p1].position,
                                                         added[p2].position))), 0)

(***************************************************************************)
(* Properties of the forces.                                               *)
(***************************************************************************)
GlobalForceTypes == {"gravity", "wind"}

\* The particle is farther than force.radius from force.position.
BeyondRadius(force, particle) ==
  /\ force.hasPosition
  /\ fgt(vectorDistance(force.position, particle.position), force.radius)

\* C21: a registered force of a type other than gravity and wind contributes
\* zero acceleration to every particle of the collection that is farther
\* than force.radius from force.position.
C21_RadiusCutoff ==
  \A o \in Engine, k \in 1..Len(forces), now \in Clocks :
    (forces[k].type \notin GlobalForceTypes /\ BeyondRadius(forces[k], heap[o]))
      => calculateForce(forces[k], heap[o], now) = ZeroVector

NoTurbulence == \A k \in 1..Len(forces) : forces[k].type # "turbulence"

\* C22: when no turbulence force is registered, the particles after update
\* are a function of the particles, the force list, the configuration and
\* deltaTime alone: the wall clock at the call makes no difference.
C22_Deterministic ==
  \A d \in Deltas, now1 \in Clocks, now2 \in Clocks :
    NoTurbulence
      => update(heap, particles, forces, config, d, now1)
           = update(heap, particles, forces, config, d, now2)

\* Two updates have run and moved a non-fixed particle while a force other
\* than turbulence was registered.
C22_Witness ==
  /\ last.op = "update" /\ updates = 2
  /\ Len(forces) > 0 /\ NoTurbulence
  /\ \E o \in NonFixed : /\ heap[o].position # added[o].position
                         /\ heap[o].acceleration # ZeroVector

(***************************************************************************)
(* Properties of the spatial grid.                                         *)
(***************************************************************************)
\* The bucket entries of the grid that hold the particle object o.
EntriesOf(grid, o) == {i \in 1..Len(grid) : grid[i].particle = o}

\* key = floor(a / gridSize), said without the division.
IsCellOf(key, a) ==
  /\ key * U(gridSize) <= a
  /\ a < (key + 1) * U(gridSize)

\* The particle objects that are no longer in the collection.
Removed == DOMAIN heap \ Engine

\* The heap with every removed particle moved out of reach of the others.
WithoutRemoved(h) ==
  [o \in DOMAIN h |->
     IF o \in Removed
       THEN [h[o] EXCEPT !.position = Vec(U(-90), U(90), U(90))]
       ELSE h[o]]

\* C23: the grid that update rebuilds at its start holds every particle of
\* the collection, fixed or not, in exactly one bucket, the one keyed by
\* floor(position / 50) on each axis, and holds no removed particle; a
\* removed particle is neither changed by the update nor has any effect on
\* the particles of the collection.
C23_GridRebuilt ==
  [][\A d \in Deltas \cup {dtCapMs}, now \in Clocks :
       Update(d, now) =>
         /\ \A o \in Engine :
              /\ Cardinality(EntriesOf(spatialGrid', o)) = 1
              /\ \A i \in EntriesOf(spatialGrid', o) :
                   /\ IsCellOf(spatialGrid'[i].key.x, heap[o].position.x)
                   /\ IsCellOf(spatialGrid'[i].key.y, heap[o].position.y)
                   /\ IsCellOf(spatialGrid'[i].key.z, heap[o].position.z)
         /\ \A o \in Removed :
              /\ EntriesOf(spatialGrid', o) = {}
              /\ heap'[o] = heap[o]
         /\ \A o \in Engine :
              heap'[o] = update(WithoutRemoved(heap), particles, forces,
                                config, d, now)[o]]_vars

\* A second update with collisions enabled has run on a collection that
\* holds a non-fixed particle, after the removal of a particle that is still
\* closer than minDistance to it.
C23_Witness ==
  /\ last.op = "update" /\ updates = 2 /\ config.collisions.enabled
  /\ Len(spatialGrid) = Len(particles)
  /\ \E r \in Removed, o \in NonFixed :
       /\ heap[r].id # heap[o].id
       /\ flt(vectorDistance(heap[r].position, heap[o].position),
              config.collisions.minDistance)
       /\ fgt(vectorDistance(heap[r].position, heap[o].position), 0)

(***************************************************************************)
(* Properties of the order of processing.                                  *)
(***************************************************************************)
\* The heap after each particle of the collection in turn has gone through
\* its whole pipeline, on the heap its predecessor left: Processed[k] is the
\* heap once the first k particles are done.
Processed(d, now, grid) ==
  LET InOrder[k \in 0..Len(particles)] ==
        IF k = 0 THEN heap
        ELSE IF InOrder[k - 1][particles[k]].isFixed THEN InOrder[k - 1]
        ELSE stepParticle(InOrder[k - 1], particles[k], forces, config, grid,
                          effectiveDt(d), now)
  IN InOrder

HeapAfter(d, now, grid) == Processed(d, now, grid)[Len(particles)]

\* C24: one update processes the particles in collection order, each
\* through its whole pipeline before the next one starts, so that a
\* particle processed later starts from the positions and velocities its
\* predecessors have already been given.
C24_ProcessingOrder ==
  [][\A d \in Deltas, now \in Clocks :
       Update(d, now) => heap' = HeapAfter(d, now, spatialGrid')]_vars

\* One update with collisions enabled has run on two non-fixed particles
\* that were added closer than minDistance, and has left them in a state
\* that processing them in the opposite order would not have.
C24_Witness ==
  /\ last.op = "update" /\ updates = 1 /\ config.collisions.enabled
  /\ Len(particles) = 2 /\ Len(heap) = 2
  /\ \A o \in Engine : ~heap[o].isFixed
  /\ \E d \in Deltas, now \in Clocks :
       /\ heap = update(added, particles, forces, config, d, now)
       /\ heap # update(added, <<particles[2], particles[1]>>, forces, config,
                        d, now)

(***************************************************************************)
(* Properties of collisions next to the boundaries.                        *)
(***************************************************************************)
\* C27: with collisions enabled and boundaries.min <= boundaries.max, right
\* after every update each non-fixed particle of the collection lies within
\* [boundaries.min, boundaries.max] on x, y and z, whatever separation its
\* neighbours applied to it after it was clamped.
C27_ContainmentWithCollisions ==
  (last.op = "update" /\ config.collisions.enabled /\ BoundsOrdered(config))
    => \A o \in NonFixed : InBounds(heap[o].position, config)

\* The particle objects that getNearbyParticles returns for a position.
NearbyOf(grid, position) ==
  LET nearby == getNearbyParticles(grid, getGridKey(position))
  IN {nearby[i] : i \in 1..Len(nearby)}

\* C28: with collisions enabled and minDistance no more than the cell size,
\* when update comes to a non-fixed particle, every other particle of the
\* collection whose distance to it is then in (0, minDistance) is among the
\* particles that the neighbourhood query on the grid returns for it.
C28_DetectionComplete ==
  [][\A d \in Deltas :
       (/\ Update(d, 0)
        /\ config.collisions.enabled
        /\ config.collisions.minDistance <= U(gridSize))
       => \A k \in 1..Len(particles) :
            LET h == Processed(d, 0, spatialGrid')[k - 1]
                p == particles[k]
            IN ~h[p].isFixed =>
                 \A q \in Engine :
                   (/\ h[q].id # h[p].id
                    /\ fgt(vectorDistance(h[p].position, h[q].position), 0)
                    /\ flt(vectorDistance(h[p].position, h[q].position),
                           config.collisions.minDistance))
                   => q \in NearbyOf(spatialGrid', h[p].position)]_vars

(***************************************************************************)
(* Properties of the frame driver's initialisation.                        *)
(***************************************************************************)
\* C29: whatever the engine held before and for every particleCount, after
\* initializeParticles the engine's collection holds exactly particleCount
\* particles, with the ids 0..particleCount-1 in index order, they are the
\* objects of the hook's own particle list, and none of them is a particle
\* the engine held before.
C29_Reinitialised ==
  [][\A count \in 0..MaxCount : \A sizes \in [1..count -> SizeDraws] :
       InitializeParticles(count, sizes) =>
         /\ Len(particles') = count
         /\ \A i \in 1..Len(particles') : heap'[particles'[i]].id = i - 1
         /\ particles' = particlesRef'
         /\ \A i \in 1..Len(particles') : particles'[i] \notin DOMAIN heap]_vars

\* initializeParticles has run with a particleCount of at least 2 on an
\* engine that held at least two particles, which are no longer in the
\* collection.
C29_Witness ==
  /\ last.op = "initializeParticles"
  /\ Len(particles) >= 2
  /\ Cardinality(Removed) >= 2

(***************************************************************************)
(* Properties of the dance patterns.                                       *)
(***************************************************************************)
\* C13: in the flow pattern the formation target (the position without the
\* flowing motion) is the circle formation at time 0 and the heart formation
\* at time 4000, for the move of createFlowingFormation and for the flow
\* branch of ParticleCanvas.
C13_FlowCircleThenHeart ==
  /\ (call.made /\ call.move = "Flowing Formation") =>
       LET target == subtractVectors(call.offset,
                                     flowingMotion(call.time, call.index))
       IN /\ call.time = 0 => target = getCircleFormation(call.index, U(80))
          /\ call.time = 4000 => target = getHeartFormation(call.index, U(60))
  /\ (shown.made /\ shown.name = "flow") =>
       LET motion == canvasFlowMotion(shown.time, shown.index)
           target == Point(fsub(shown.pos.x, motion.x),
                           fsub(shown.pos.y, motion.y))
       IN /\ shown.time = 0 => target = canvasCircle(shown.index)
          /\ shown.time = 4000 => target = canvasHeart(shown.index)

\* C14: in the spiral pattern the layer of a particle is floor(index / 20)
\* mod 3, so the layer changes from index 19 to 20 (and at every multiple of
\* 20) and not from 20 to 21, and the base radius of a layer exceeds that of
\* the layer before by 0.35 * formationSize.
C14_SpiralLayering ==
  (call.made /\ call.move = "Spiral Formation") =>
    LET i == call.index
        size == orDefault(call.params.formationSize, U(100))
    IN /\ \E k \in 0..MaxIndex :
            /\ 20 * (3 * k + spiralLayer(i)) <= i
            /\ i < 20 * (3 * k + spiralLayer(i)) + 20
       /\ spiralLayer(i) \in 0..2
       /\ (JsMod(i, 20) = 19) <=> (spiralLayer(i + 1) # spiralLayer(i))
       /\ spiralLayer(i) < 2 =>
            fsub(spiralLayerRadius(i + 20, size), spiralLayerRadius(i, size))
              = fmul(size, 35)

\* The spiral move was executed for index 60, the first index whose layer
\* wraps around to 0, with a formationSize given.
C14_Witness ==
  /\ call.made /\ call.move = "Spiral Formation"
  /\ call.index = 60
  /\ call.params.formationSize = U(120)

\* The pulse of the bounce pattern in the execute call made, and the
\* beatIntensity it was computed for.
CallBeatPhase == rhythmicBeatPhase(call.time, bpm)
CallBeatIntensity == orDefault(call.params.beatIntensity, Scale)
CallBeatPulse == createBeatPulse(CallBeatPhase, CallBeatIntensity)

\* C25: at every time, negative ones included, the pulse of the bounce
\* pattern lies within [0, beatIntensity]; it is beatIntensity at phase 0 and
\* at most 0.3 * beatIntensity from 10% of the cycle on.
C25_BeatEnvelope ==
  (call.made /\ call.move = "Rhythmic Beat")
    => /\ 0 <= CallBeatPulse
       /\ CallBeatPulse <= CallBeatIntensity
       /\ CallBeatPhase = 0 => CallBeatPulse = CallBeatIntensity
       /\ CallBeatPhase >= 10 => CallBeatPulse <= fmul(30, CallBeatIntensity)

\* The grid position of the bounce pattern, without any displacement.
BounceGrid(index) ==
  Vec(U((JsMod(index, 10) - 5) * 25), U((FloorDiv(index, 10) - 5) * 25), 0)

\* C26: a multiplier of 0 scales its pattern to nothing: with flowIntensity
\* = 0 the flow-scaled z offset of the wave pattern is 0, with beatIntensity
\* = 0 the bounce pattern displaces no particle from its grid position, and
\* with spiralSpeed = 0 the angle of the spiral does not advance with time.
C26_ZeroMultiplier ==
  call.made =>
    /\ (call.move = "Contemporary Flow" /\ call.params.flowIntensity = 0)
         => call.offset.z = 0
    /\ (call.move = "Rhythmic Beat" /\ call.params.beatIntensity = 0)
         => call.offset = BounceGrid(call.index)
    /\ (call.move = "Spiral Formation" /\ call.params.spiralSpeed = 0)
         => spiralFormationAngle(call.time, call.index, call.params)
              = spiralFormationAngle(0, call.index, call.params)

(***************************************************************************)
(* Properties of the store.                                                *)
(***************************************************************************)
\* C16: after any sequence of store operations particleCount is within
\* [10, 2000] and animationSpeed within [0.1, 5.0].
C16_StoreRanges ==
  /\ MIN_PARTICLES <= particleCount /\ particleCount <= MAX_PARTICLES
  /\ 10 <= animationSpeed /\ animationSpeed <= 500

\* C30: while performanceMode is 'auto', every updateFPS(fps) sets the
\* particle count to 200 for fps < 30, to 500 for 30 <= fps < 45 and to 1000
\* otherwise, and leaves the mode 'auto', so that the next updateFPS adjusts
\* the count again.
C30_AutoScaling ==
  [][\A newFps \in FpsInputs :
       (UpdateFPS(newFps) /\ performanceMode = "auto")
         => /\ particleCount' = IF newFps < U(30) THEN 200
                                ELSE IF newFps < U(45) THEN 500 ELSE 1000
            /\ performanceMode' = "auto"]_vars

====
